---- MODULE Spec2Model ----
(***************************************************************************)
(* Contract Violation Resolution Engine of the pylint import-linter       *)
(* plugin (src/src/importlinter/pylint_plugin/): the pattern matcher, the  *)
(* violation link matcher, the contract evaluator and the driver.          *)
(*                                                                         *)
(* Python strings are modelled as sequences of one-character strings, so   *)
(* that startswith / endswith / in / split / re.match are computed on the  *)
(* characters as the code computes them.                                   *)
(***************************************************************************)
EXTENDS Integers, Sequences, FiniteSets, TLC

VARIABLES
    module,            \* module_matches_pattern: the module argument
    pattern,           \* module_matches_pattern: the pattern argument (an object with a str form)
    match_result,      \* module_matches_pattern: "pending", or the call's outcome
    link,              \* matches_violation_link: the evidence link {"importer", "imported"}
    current_module,    \* the importing module of the edge under evaluation
    imported_module,   \* the imported module of the edge under evaluation
    link_result,       \* matches_violation_link: "pending", or the call's outcome
    contract,          \* _check_contract_against_import: the contract (its attributes)
    contract_check,    \* _check_contract_against_import: the ContractCheck (kept, metadata)
    implicated,        \* _check_contract_against_import: "pending", or the call's outcome
    config,            \* linter.config: the import_linter_* options
    environ,           \* os.environ["PYTHONPATH"] ("" when unset)
    sys_path,          \* sys.path
    create_report,     \* what importlinter's create_report does in this run
    _contracts_checked,   \* ImportLinterChecker._contracts_checked
    _first_module_node,   \* ImportLinterChecker._first_module_node
    _analyzed_files,      \* ImportLinterChecker._analyzed_files
    _module_nodes,        \* ImportLinterChecker._module_nodes
    _import_nodes,        \* ImportLinterChecker._import_nodes
    _contracts_cache,     \* ImportLinterChecker._contracts_cache
    _single_file_mode,    \* ImportLinterChecker._single_file_mode
    _target_module_name,  \* ImportLinterChecker._target_module_name
    messages,          \* the add_message calls made so far, in order
    resolve_file,      \* get_module_path_from_file: the file_path argument
    resolve_result,    \* get_module_path_from_file: Pending, or Returned(the module path)
    relative_node,     \* _resolve_relative_import: the import node of the edge
    relative_result    \* the imported module of the edge: Pending, or Returned(None or Some(it))

matcher_vars == <<module, pattern, match_result, link, current_module, imported_module,
                  link_result, contract, contract_check, implicated>>

driver_vars == <<config, environ, sys_path, create_report, _contracts_checked,
                 _first_module_node, _analyzed_files, _module_nodes, _import_nodes,
                 _contracts_cache, _single_file_mode, _target_module_name, messages>>

resolver_vars == <<resolve_file, resolve_result, relative_node, relative_result>>

vars == <<matcher_vars, driver_vars, resolver_vars>>

----------------------------------------------------------------------------
(* Bounds of the model *)

MaxModuleLen == 4
MaxPatternLen == 4
MaxLinkLen == 3
MaxSegments == 3

----------------------------------------------------------------------------
(* Python str operations, on sequences of characters *)

DOT == "."
STAR == "*"
SLASH == "/"

ModuleChars == {"a", "b", DOT}
PatternChars == ModuleChars \cup {STAR}

Strings(chars, n) == UNION {[1..k -> chars] : k \in 0..n}

\* s.startswith(p)
StartsWith(s, p) == Len(p) <= Len(s) /\ SubSeq(s, 1, Len(p)) = p

\* s.endswith(p)
EndsWith(s, p) == Len(p) <= Len(s) /\ SubSeq(s, Len(s) - Len(p) + 1, Len(s)) = p

\* p in s
Contains(s, p) == \E i \in 0..(Len(s) - Len(p)) : SubSeq(s, i + 1, i + Len(p)) = p

\* the outcome of a call that returns a bool
PyBool(b) == IF b THEN "True" ELSE "False"

\* a if it is not None, else b
OrElse(a, b) == IF a.found THEN a ELSE b

\* s.replace(old, new): the non-overlapping occurrences of old, left to right
RECURSIVE Replace(_, _, _)
Replace(s, old, new) ==
    IF Len(s) < Len(old) \/ Len(old) = 0 THEN s
    ELSE IF SubSeq(s, 1, Len(old)) = old
         THEN new \o Replace(SubSeq(s, Len(old) + 1, Len(s)), old, new)
         ELSE <<s[1]>> \o Replace(Tail(s), old, new)

\* s.split(sep) for a one-character sep: the pieces between the separators,
\* empty ones included
RECURSIVE SplitOn(_, _)
SplitOn(s, sep) ==
    IF \A i \in 1..Len(s) : s[i] # sep THEN <<s>>
    ELSE LET i == CHOOSE k \in 1..Len(s) : s[k] = sep /\ \A h \in 1..(k - 1) : s[h] # sep
         IN  <<SubSeq(s, 1, i - 1)>> \o SplitOn(SubSeq(s, i + 1, Len(s)), sep)

\* sep.join(parts)
RECURSIVE JoinWith(_, _)
JoinWith(parts, sep) ==
    IF Len(parts) = 0 THEN <<>>
    ELSE IF Len(parts) = 1 THEN parts[1]
    ELSE parts[1] \o <<sep>> \o JoinWith(Tail(parts), sep)

\* s.split(".")
Split(s) == SplitOn(s, DOT)

\* ".".join(parts)
Join(parts) == JoinWith(parts, DOT)

----------------------------------------------------------------------------
(* re.match("^" + regex + "$", s) for the expressions the matcher builds:   *)
(* literal characters, "." (any character), the class "[^.]", and "*" as    *)
(* the repetition of the atom before it.                                    *)

\* the length of the atom that starts at regex[i]
AtomLen(regex, i) == IF regex[i] = "[" THEN 4 ELSE 1

\* whether character c matches the atom that starts at regex[i]
AtomMatches(regex, i, c) ==
    IF regex[i] = "[" THEN c # DOT
    ELSE IF regex[i] = DOT THEN TRUE
    ELSE c = regex[i]

\* re.compile succeeds: no "*" with nothing to repeat, no repeated "*"
ReCompiles(regex) ==
    \A i \in 1..Len(regex) :
        regex[i] = STAR => (i > 1 /\ regex[i - 1] # STAR)

\* backtracking match of regex[i..] against s[j..], anchored at both ends
RECURSIVE ReMatchFrom(_, _, _, _)
ReMatchFrom(regex, i, s, j) ==
    IF i > Len(regex) THEN j > Len(s)
    ELSE LET after == i + AtomLen(regex, i)
             starred == after <= Len(regex) /\ regex[after] = STAR
         IN  IF starred
             THEN \/ ReMatchFrom(regex, after + 1, s, j)
                  \/ /\ j <= Len(s)
                     /\ AtomMatches(regex, i, s[j])
                     /\ ReMatchFrom(regex, i, s, j + 1)
             ELSE /\ j <= Len(s)
                  /\ AtomMatches(regex, i, s[j])
                  /\ ReMatchFrom(regex, after, s, j + 1)

\* bool(re.match(f"^{regex}$", s)), or the re.error that compiling raises
ReMatch(regex, s) ==
    IF ~ReCompiles(regex) THEN "re.error"
    ELSE PyBool(ReMatchFrom(regex, 1, s, 1))

----------------------------------------------------------------------------
(* Pattern Matcher: ViolationMatcher.module_matches_pattern *)

\* str(pattern): a pattern is any object; only its string form is used
PyStr(p) == p.text

\* a plausible slip: the prefix test without the segment boundary
module_matches_pattern_no_boundary(m, p) ==
    LET pattern_str == PyStr(p)
    IN  IF Contains(pattern_str, <<STAR, STAR>>)
        THEN ReMatch(Replace(pattern_str, <<STAR, STAR>>, <<DOT, STAR>>), m)
        ELSE IF Contains(pattern_str, <<STAR>>)
        THEN ReMatch(Replace(pattern_str, <<STAR>>, <<"[", "^", DOT, "]", STAR>>), m)
        ELSE PyBool(m = pattern_str \/ StartsWith(m, pattern_str))

module_matches_pattern(m, p) ==
    LET pattern_str == PyStr(p)
    IN  IF Contains(pattern_str, <<STAR, STAR>>)
        THEN ReMatch(Replace(pattern_str, <<STAR, STAR>>, <<DOT, STAR>>), m)
        ELSE IF Contains(pattern_str, <<STAR>>)
        THEN ReMatch(Replace(pattern_str, <<STAR>>, <<"[", "^", DOT, "]", STAR>>), m)
        ELSE PyBool(m = pattern_str \/ StartsWith(m, pattern_str \o <<DOT>>))

\* get_domain, the helper of modules_are_same_domain
get_domain(m) ==
    LET parts == Split(m)
    IN  IF Len(parts) >= 2 THEN Join(SubSeq(parts, 1, 2)) ELSE m

\* a plausible slip: the domain key taken as the first segment alone
modules_are_same_domain_first_segment(module1, module2) ==
    Split(module1)[1] = Split(module2)[1]

modules_are_same_domain(module1, module2) ==
    get_domain(module1) = get_domain(module2)

----------------------------------------------------------------------------
(* Violation Link Matcher: ViolationMatcher.matches_violation_link and its *)
(* six strategies, in the order the code tries them.                       *)

_exact_match(cur, imp, violation_importer, violation_imported) ==
    cur = violation_importer /\ imp = violation_imported

\* a plausible change: the suffix accepted at a segment boundary only
_suffix_match_at_boundary(cur, imp, violation_importer, violation_imported) ==
    /\ EndsWith(violation_importer, cur)
    /\ \/ Len(violation_importer) = Len(cur)
       \/ violation_importer[Len(violation_importer) - Len(cur)] = DOT
    /\ imp = violation_imported

_suffix_match(cur, imp, violation_importer, violation_imported) ==
    EndsWith(violation_importer, cur) /\ imp = violation_imported

_prefix_match(cur, imp, violation_importer, violation_imported) ==
    EndsWith(cur, violation_importer) /\ imp = violation_imported

_module_prefix_match(cur, imp, violation_importer, violation_imported) ==
    EndsWith(violation_importer, cur) /\ StartsWith(imp, violation_imported \o <<DOT>>)

\* a plausible slip: the link's imported module sought anywhere in the name
_contains_match_imported_anywhere(cur, imp, violation_importer, violation_imported) ==
    Contains(cur, violation_importer) /\ Contains(imp, violation_imported)

_contains_match(cur, imp, violation_importer, violation_imported) ==
    Contains(cur, violation_importer) /\ StartsWith(imp, violation_imported)

_flexible_suffix_match(cur, imp, violation_importer, violation_imported) ==
    EndsWith(violation_importer, <<DOT>> \o cur) /\ StartsWith(imp, violation_imported)

matches_violation_link(lnk, cur, imp) ==
    LET violation_importer == lnk.importer
        violation_imported == lnk.imported
    IN  IF _exact_match(cur, imp, violation_importer, violation_imported) THEN TRUE
        ELSE IF _suffix_match(cur, imp, violation_importer, violation_imported) THEN TRUE
        ELSE IF _prefix_match(cur, imp, violation_importer, violation_imported) THEN TRUE
        ELSE IF _module_prefix_match(cur, imp, violation_importer, violation_imported) THEN TRUE
        ELSE IF _contains_match(cur, imp, violation_importer, violation_imported) THEN TRUE
        ELSE _flexible_suffix_match(cur, imp, violation_importer, violation_imported)

----------------------------------------------------------------------------
(* Contract Evaluator: ContractChecker._check_contract_against_import.     *)
(* A contract is the set of attributes it exposes (hasattr) and their      *)
(* values; a ContractCheck is kept plus metadata.  metadata.kind is        *)
(*   "absent"  no metadata attribute,                                      *)
(*   "empty"   None or an empty dict (falsy),                              *)
(*   "dict"    a non-empty dict, with or without the key "invalid_chains", *)
(*   "opaque"  a truthy object that is no container (unittest.mock.Mock):  *)
(*             a membership test on it raises TypeError.                   *)
(* An outcome is "True", "False", or the name of the exception raised.     *)

hasattr(obj, name) == name \in obj.attrs

\* any(module_matches_pattern(m, p) for p in patterns): lazy, left to right
RECURSIVE any_module_matches_pattern(_, _)
any_module_matches_pattern(m, patterns) ==
    IF Len(patterns) = 0 THEN "False"
    ELSE (LET Given_r(r) == IF r = "False" THEN any_module_matches_pattern(m, Tail(patterns))
                         ELSE r
         IN  Given_r(module_matches_pattern(m, Head(patterns))))

\* the links the nested loops over metadata["invalid_chains"] visit:
\* every link of every chain of every chain_info that has the key "chains"
LinksVisited(metadata) ==
    UNION {UNION {{chain_info.chains[j][k] : k \in DOMAIN chain_info.chains[j]} :
                    j \in DOMAIN chain_info.chains} :
             chain_info \in {metadata.invalid_chains[i] :
                                i \in {h \in DOMAIN metadata.invalid_chains :
                                          metadata.invalid_chains[h].has_chains}}}

_check_metadata_violations(check, cur, imp) ==
    IF check.metadata.kind \in {"absent", "empty"} THEN "False"
    ELSE IF check.metadata.kind = "opaque" THEN "TypeError"
    ELSE IF ~check.metadata.has_invalid_chains THEN "False"
    ELSE PyBool(\E lnk \in LinksVisited(check.metadata) :
            /\ "importer" \in lnk.keys /\ "imported" \in lnk.keys
            /\ matches_violation_link(lnk, cur, imp))

\* the conjunction of two outcomes; an exception in either propagates
BothTrue(first, second) ==
    IF first = "re.error" \/ second = "re.error" THEN "re.error"
    ELSE PyBool(first = "True" /\ second = "True")

_check_forbidden_pattern_match(c, cur, imp) ==
    BothTrue(any_module_matches_pattern(cur, c.source_modules),
             any_module_matches_pattern(imp, c.forbidden_modules))

_check_forbidden_contract(c, check, cur, imp) ==
    (LET Given_found(found) == IF found = "False" THEN _check_forbidden_pattern_match(c, cur, imp)
                        ELSE found
    IN  Given_found(_check_metadata_violations(check, cur, imp)))

_check_independence_contract(c, cur, imp) ==
    (LET Given_in_group(in_group) == IF in_group = "True"
                           THEN PyBool(~modules_are_same_domain(cur, imp))
                           ELSE in_group
    IN  Given_in_group(BothTrue(any_module_matches_pattern(cur, c.modules),
                  any_module_matches_pattern(imp, c.modules))))

_check_explicit_violations(check, cur, imp) ==
    IF check.metadata.kind \in {"absent", "empty"} THEN "False"
    ELSE IF check.metadata.kind = "opaque" THEN "TypeError"
    ELSE IF ~check.metadata.has_invalid_chains THEN "False"
    ELSE PyBool(\E lnk \in LinksVisited(check.metadata) :
            /\ "importer" \in lnk.keys /\ "imported" \in lnk.keys
            /\ lnk.importer = cur
            /\ StartsWith(imp, lnk.imported))

_check_whitelist_contract(c, check, cur, imp) ==
    (LET Given_source_match(source_match) == IF source_match = "True"
                               THEN _check_explicit_violations(check, cur, imp)
                               ELSE source_match
    IN  Given_source_match(any_module_matches_pattern(cur, c.source_modules)))

_is_forbidden_contract(c) == hasattr(c, "forbidden_modules") /\ hasattr(c, "source_modules")

_is_independence_contract(c) == hasattr(c, "modules")

_is_whitelist_contract(c) == hasattr(c, "source_modules") /\ hasattr(c, "allowed_modules")

\* a plausible slip: the Independence test tried before the Forbidden one
_check_contract_against_import_try_modules_first(c, check, cur, imp) ==
    IF _is_independence_contract(c) THEN _check_independence_contract(c, cur, imp)
    ELSE IF _is_forbidden_contract(c) THEN _check_forbidden_contract(c, check, cur, imp)
    ELSE IF _is_whitelist_contract(c) THEN _check_whitelist_contract(c, check, cur, imp)
    ELSE "False"

\* the dispatch, before the except clause
_check_contract_against_import_try(c, check, cur, imp) ==
    IF _is_forbidden_contract(c) THEN _check_forbidden_contract(c, check, cur, imp)
    ELSE IF _is_independence_contract(c) THEN _check_independence_contract(c, cur, imp)
    ELSE IF _is_whitelist_contract(c) THEN _check_whitelist_contract(c, check, cur, imp)
    ELSE "False"

\* except (AttributeError, TypeError): return False; any other exception leaves
_check_contract_against_import(c, check, cur, imp) ==
    (LET Given_r(r) == IF r \in {"AttributeError", "TypeError"} THEN "False" ELSE r
    IN  Given_r(_check_contract_against_import_try(c, check, cur, imp)))

----------------------------------------------------------------------------
(* os.path on POSIX paths, as sequences of characters *)

\* the working directory of the run (os.getcwd())
Cwd == <<SLASH, "w">>

isabs(path) == Len(path) > 0 /\ path[1] = SLASH

\* os.path.normpath on path components: "", "." dropped, ".." pops
RECURSIVE NormParts(_, _)
NormParts(parts, stack) ==
    IF Len(parts) = 0 THEN stack
    ELSE IF Head(parts) = <<>> \/ Head(parts) = <<DOT>>
         THEN NormParts(Tail(parts), stack)
    ELSE IF Head(parts) = <<DOT, DOT>>
         THEN NormParts(Tail(parts),
                        IF Len(stack) = 0 THEN stack ELSE SubSeq(stack, 1, Len(stack) - 1))
    ELSE NormParts(Tail(parts), Append(stack, Head(parts)))

\* the components of os.path.abspath(path)
AbsParts(path) ==
    NormParts(SplitOn(IF isabs(path) THEN path ELSE Cwd \o <<SLASH>> \o path, SLASH), <<>>)

\* os.path.abspath(path)
abspath(path) == <<SLASH>> \o JoinWith(AbsParts(path), SLASH)

\* os.path.relpath(path, os.getcwd()), for a non-empty path
relpath(path) ==
    LET start_list == AbsParts(Cwd)
        path_list == AbsParts(path)
        common == CHOOSE i \in 0..Len(start_list) :
                    /\ i <= Len(path_list)
                    /\ SubSeq(start_list, 1, i) = SubSeq(path_list, 1, i)
                    /\ \/ i = Len(start_list) \/ i = Len(path_list)
                       \/ start_list[i + 1] # path_list[i + 1]
        rel_list == [k \in 1..(Len(start_list) - common) |-> <<DOT, DOT>>]
                        \o SubSeq(path_list, common + 1, Len(path_list))
    IN  IF Len(rel_list) = 0 THEN <<DOT>> ELSE JoinWith(rel_list, SLASH)

----------------------------------------------------------------------------
(* Module Path Resolver: ModulePathResolver.get_module_path_from_file.     *)
(* A strategy returns Some(module) or None.                                *)

None == [found |-> FALSE, value |-> <<>>]
Some(v) == [found |-> TRUE, value |-> v]

PY == <<DOT, "p", "y">>

\* a plausible slip: the grouping segment after the sentinel is kept
_try_domains_pattern_keep_group(rel_path) ==
    LET domains_pattern == <<"d", "o", "m", "a", "i", "n", "s", SLASH>>
        after_domains == SubSeq(rel_path, Len(domains_pattern) + 1, Len(rel_path))
        parts == SplitOn(after_domains, SLASH)
    IN  IF ~StartsWith(rel_path, domains_pattern) THEN None
        ELSE IF Len(parts) >= 2 THEN Some(Join(parts))
        ELSE None

_try_domains_pattern(rel_path) ==
    LET domains_pattern == <<"d", "o", "m", "a", "i", "n", "s", SLASH>>
        after_domains == SubSeq(rel_path, Len(domains_pattern) + 1, Len(rel_path))
        parts == SplitOn(after_domains, SLASH)
    IN  IF ~StartsWith(rel_path, domains_pattern) THEN None
        ELSE IF Len(parts) >= 2 THEN Some(Join(Tail(parts)))
        ELSE None

_convert_to_relative_path(path_entry) == relpath(abspath(path_entry))

\* os.env.get("PYTHONPATH", "").split(":"), the empty entries skipped
RECURSIVE NonEmpty(_)
NonEmpty(entries) ==
    IF Len(entries) = 0 THEN <<>>
    ELSE IF Len(Head(entries)) > 0 THEN <<Head(entries)>> \o NonEmpty(Tail(entries))
    ELSE NonEmpty(Tail(entries))

EnvEntries(env) == NonEmpty(SplitOn(env, ":"))

\* a plausible slip: the environment entries ahead of the configured ones
_get_all_pythonpath_entries_env_first(cfg, env) ==
    [i \in DOMAIN EnvEntries(env) |->
        _convert_to_relative_path(EnvEntries(env)[i])]
    \o [i \in DOMAIN cfg.import_linter_pythonpath |->
            _convert_to_relative_path(cfg.import_linter_pythonpath[i])]

_get_all_pythonpath_entries(cfg, env) ==
    [i \in DOMAIN cfg.import_linter_pythonpath |->
        _convert_to_relative_path(cfg.import_linter_pythonpath[i])]
    \o [i \in DOMAIN EnvEntries(env) |->
            _convert_to_relative_path(EnvEntries(env)[i])]

_resolve_with_pythonpath_entry(rel_path, pythonpath_entry) ==
    IF Len(pythonpath_entry) = 0 \/ ~StartsWith(rel_path, pythonpath_entry) THEN None
    ELSE IF StartsWith(rel_path, pythonpath_entry \o <<SLASH>>)
         THEN Some(Replace(SubSeq(rel_path, Len(pythonpath_entry) + 2, Len(rel_path)),
                           <<SLASH>>, <<DOT>>))
    ELSE IF rel_path = pythonpath_entry THEN Some(<<>>)
    ELSE None

RECURSIVE PythonpathLoop(_, _)
PythonpathLoop(rel_path, entries) ==
    IF Len(entries) = 0 THEN None
    ELSE OrElse(_resolve_with_pythonpath_entry(rel_path, Head(entries)),
                PythonpathLoop(rel_path, Tail(entries)))

_try_pythonpath_resolution(rel_path, cfg, env) ==
    PythonpathLoop(rel_path, _get_all_pythonpath_entries(cfg, env))

\* a plausible slip: the root module taken as the whole target folder
_resolve_with_target_folder_whole_folder(rel_path, target_folder) ==
    LET module_path == SubSeq(rel_path, Len(target_folder) + 2, Len(rel_path))
        root_module == target_folder
    IN  IF StartsWith(rel_path, target_folder \o <<SLASH>>)
        THEN Some(Replace(IF Len(module_path) > 0
                          THEN root_module \o <<DOT>> \o module_path
                          ELSE root_module,
                          <<SLASH>>, <<DOT>>))
        ELSE IF rel_path = target_folder THEN Some(root_module)
        ELSE None

_resolve_with_target_folder(rel_path, target_folder) ==
    LET module_path == SubSeq(rel_path, Len(target_folder) + 2, Len(rel_path))
        folder_parts == SplitOn(target_folder, SLASH)
        root_module == folder_parts[Len(folder_parts)]
    IN  IF StartsWith(rel_path, target_folder \o <<SLASH>>)
        THEN Some(Replace(IF Len(module_path) > 0
                          THEN root_module \o <<DOT>> \o module_path
                          ELSE root_module,
                          <<SLASH>>, <<DOT>>))
        ELSE IF rel_path = target_folder THEN Some(root_module)
        ELSE None

RECURSIVE _try_target_folder_resolution(_, _)
_try_target_folder_resolution(rel_path, target_folders) ==
    IF Len(target_folders) = 0 THEN None
    ELSE OrElse(_resolve_with_target_folder(rel_path, Head(target_folders)),
                _try_target_folder_resolution(rel_path, Tail(target_folders)))

_fallback_resolution(rel_path) == Some(Replace(rel_path, <<SLASH>>, <<DOT>>))

\* rel_path[:-3] if rel_path.endswith(".py")
StripPy(raw) == IF EndsWith(raw, PY) THEN SubSeq(raw, 1, Len(raw) - Len(PY)) ELSE raw

\* a plausible slip: the target folders consulted ahead of the search roots
Strategies_target_folder_first(rel_path, cfg, env) ==
    OrElse(_try_domains_pattern(rel_path),
    OrElse(_try_target_folder_resolution(rel_path, cfg.import_linter_target_folders),
    OrElse(_try_pythonpath_resolution(rel_path, cfg, env),
           _fallback_resolution(rel_path))))

\* the strategies in their order of priority: the first result that is not None
Strategies(rel_path, cfg, env) ==
    OrElse(_try_domains_pattern(rel_path),
    OrElse(_try_pythonpath_resolution(rel_path, cfg, env),
    OrElse(_try_target_folder_resolution(rel_path, cfg.import_linter_target_folders),
           _fallback_resolution(rel_path))))

get_module_path_from_file(file_path, cfg, env) ==
    IF Len(file_path) = 0 THEN <<>>
    ELSE Strategies(StripPy(relpath(file_path)), cfg, env).value

----------------------------------------------------------------------------
(* Resolution of the imported identifier.  An import node carries the       *)
(* attributes astroid gives it (attrs), the file of its root module         *)
(* (file, "" when the root has none) and its line; names holds the first    *)
(* component of each (name, alias) pair.                                    *)

\* a plausible slip: the last of the statement's names taken
_extract_imported_module_last_name(import_node) ==
    IF hasattr(import_node, "modname") /\ Len(import_node.modname) > 0
    THEN Some(import_node.modname)
    ELSE IF hasattr(import_node, "names") /\ Len(import_node.names) > 0
    THEN Some(import_node.names[Len(import_node.names)])
    ELSE None

_extract_imported_module(import_node) ==
    IF hasattr(import_node, "modname") /\ Len(import_node.modname) > 0
    THEN Some(import_node.modname)
    ELSE IF hasattr(import_node, "names") /\ Len(import_node.names) > 0
    THEN Some(import_node.names[1])
    ELSE None

\* s.lstrip(".")
RECURSIVE LStripDots(_)
LStripDots(s) == IF Len(s) > 0 /\ s[1] = DOT THEN LStripDots(Tail(s)) ELSE s

\* a plausible slip: the current module taken for its own package
_resolve_relative_import_from_module(imported, import_node, cur) ==
    LET current_package == cur
        relative_part == LStripDots(imported)
    IN  IF StartsWith(imported, <<DOT>>)
        THEN IF Len(cur) = 0 THEN Some(imported)
             ELSE IF Len(current_package) = 0 THEN None
             ELSE IF Len(relative_part) > 0
                  THEN Some(current_package \o <<DOT>> \o relative_part)
             ELSE Some(current_package)
        ELSE IF hasattr(import_node, "level") /\ import_node.level > 0
        THEN IF Len(cur) = 0 THEN Some(imported)
             ELSE IF Len(current_package) = 0 THEN None
             ELSE Some(current_package \o <<DOT>> \o imported)
        ELSE Some(imported)

_resolve_relative_import(imported, import_node, cur) ==
    LET parts == Split(cur)
        current_package == Join(SubSeq(parts, 1, Len(parts) - 1))
        relative_part == LStripDots(imported)
    IN  IF StartsWith(imported, <<DOT>>)
        THEN IF Len(cur) = 0 THEN Some(imported)
             ELSE IF Len(current_package) = 0 THEN None
             ELSE IF Len(relative_part) > 0
                  THEN Some(current_package \o <<DOT>> \o relative_part)
             ELSE Some(current_package)
        ELSE IF hasattr(import_node, "level") /\ import_node.level > 0
        THEN IF Len(cur) = 0 THEN Some(imported)
             ELSE IF Len(current_package) = 0 THEN None
             ELSE Some(current_package \o <<DOT>> \o imported)
        ELSE Some(imported)

----------------------------------------------------------------------------
(* Message ids (application/constants.py) *)

IMPORT_BOUNDARY_VIOLATION == "import-boundary-violation"
IMPORT_LAYER_VIOLATION == "import-layer-violation"
IMPORT_INDEPENDENCE_VIOLATION == "import-independence-violation"
IMPORT_CONTRACT_VIOLATION == "import-contract-violation"
IMPORT_CONTRACT_ERROR == "import-contract-error"

CONTRACT_TYPE_TO_MESSAGE_ID ==
    [ForbiddenContract |-> IMPORT_BOUNDARY_VIOLATION,
     LayersContract |-> IMPORT_LAYER_VIOLATION,
     IndependenceContract |-> IMPORT_INDEPENDENCE_VIOLATION]

DEFAULT_CONTRACT_MESSAGE_ID == IMPORT_CONTRACT_VIOLATION

\* the lookup of a contract's class name in the table, with the default
get_message_id_for_contract_type(contract_type) ==
    IF contract_type \in DOMAIN CONTRACT_TYPE_TO_MESSAGE_ID
    THEN CONTRACT_TYPE_TO_MESSAGE_ID[contract_type]
    ELSE DEFAULT_CONTRACT_MESSAGE_ID

----------------------------------------------------------------------------
(* ContractChecker.check_import_contracts and is_import_violation.          *)
(* The outcome of create_report is the exception it raises, or a report:   *)
(* its attribute contains_failures and the sequence                         *)
(* get_contracts_and_checks() yields, pairs (contract, contract_check) in   *)
(* the order the contracts were declared.                                   *)

NoNode == [id |-> 0, file |-> <<>>]
NoCache == [loaded |-> FALSE, contracts_and_checks |-> <<>>]

\* the text appended to an error message in debug mode
DebugTraceback(debug) == IF debug THEN <<"\nDebug traceback:\n", "traceback">> ELSE <<>>

\* the error message: a prefix, str(error), and in debug mode the traceback
_handle_contract_error(error, first_module_node, debug) ==
    [kind |-> "error", error |-> IMPORT_CONTRACT_ERROR,
     args |-> <<<<"", error>> \o DebugTraceback(debug)>>,
     node |-> first_module_node, report |-> <<>>]

\* a plausible slip: the package-structure error reported like any other
_handle_unexpected_error_no_skip(error, first_module_node, debug) ==
    [kind |-> "error", error |-> IMPORT_CONTRACT_ERROR,
     args |-> <<<<"Unexpected error: ", error>> \o DebugTraceback(debug)>>,
     node |-> first_module_node, report |-> <<>>]

_handle_unexpected_error(error, first_module_node, debug) ==
    IF error = "NotATopLevelModule"
    THEN [kind |-> "None", error |-> "", args |-> <<>>, node |-> NoNode, report |-> <<>>]
    ELSE [kind |-> "error", error |-> IMPORT_CONTRACT_ERROR,
          args |-> <<<<"Unexpected error: ", error>> \o DebugTraceback(debug)>>,
          node |-> first_module_node, report |-> <<>>]

check_import_contracts(outcome, first_module_node, debug) ==
    IF outcome.raises = "none"
    THEN IF outcome.contains_failures
         THEN [kind |-> "report", error |-> "", args |-> <<>>, node |-> NoNode,
               report |-> outcome.contracts_and_checks]
         ELSE [kind |-> "None", error |-> "", args |-> <<>>, node |-> NoNode, report |-> <<>>]
    ELSE IF outcome.raises \in {"ImportError", "FileNotFoundError", "ValueError"}
    THEN _handle_contract_error(outcome.raises, first_module_node, debug)
    ELSE _handle_unexpected_error(outcome.raises, first_module_node, debug)

\* a plausible slip: every contract is tested, kept or broken
RECURSIVE FirstImplicating_any_contract(_, _, _, _)
FirstImplicating_any_contract(pairs, i, cur, imp) ==
    IF i > Len(pairs) THEN [index |-> 0, raised |-> "none"]
    ELSE (LET Given_r(r) == IF r = "True" THEN [index |-> i, raised |-> "none"]
                         ELSE IF r = "False"
                         THEN FirstImplicating_any_contract(pairs, i + 1, cur, imp)
                         ELSE [index |-> 0, raised |-> r]
         IN  Given_r(_check_contract_against_import(pairs[i].contract, pairs[i].contract_check,
                                             cur, imp)))

\* a plausible slip: the loop does not stop at the first implicating contract,
\* the last one is reported
RECURSIVE FirstImplicating_no_return(_, _, _, _)
FirstImplicating_no_return(pairs, i, cur, imp) ==
    IF i > Len(pairs) THEN [index |-> 0, raised |-> "none"]
    ELSE (LET Given_later(later) ==
                IF later.index > 0 \/ later.raised # "none" \/ pairs[i].contract_check.kept
                THEN later
                ELSE (LET Given_r(r) == IF r = "True" THEN [index |-> i, raised |-> "none"]
                                     ELSE IF r = "False" THEN later
                                     ELSE [index |-> 0, raised |-> r]
                     IN  Given_r(_check_contract_against_import(pairs[i].contract,
                                                         pairs[i].contract_check, cur, imp)))
         IN  Given_later(FirstImplicating_no_return(pairs, i + 1, cur, imp)))

\* the loop over get_contracts_and_checks() from position i: the position of
\* the first broken contract that implicates the edge (0 when there is none),
\* or the exception that leaves the loop
RECURSIVE FirstImplicating(_, _, _, _)
FirstImplicating(pairs, i, cur, imp) ==
    IF i > Len(pairs) THEN [index |-> 0, raised |-> "none"]
    ELSE IF pairs[i].contract_check.kept THEN FirstImplicating(pairs, i + 1, cur, imp)
    ELSE (LET Given_r(r) == IF r = "True" THEN [index |-> i, raised |-> "none"]
                         ELSE IF r = "False" THEN FirstImplicating(pairs, i + 1, cur, imp)
                         ELSE [index |-> 0, raised |-> r]
         IN  Given_r(_check_contract_against_import(pairs[i].contract, pairs[i].contract_check,
                                             cur, imp)))

\* the outcome "True" / "False", or the exception that propagates
\* the edge of an import node: its current module and the resolved imported
\* module, or None where the code gives up (no imported name, no module)
ResolvedEdge(extracted, import_node, cur) ==
    IF ~extracted.found \/ Len(extracted.value) = 0 THEN None
    ELSE (LET Given_resolved(resolved) == IF ~resolved.found \/ Len(resolved.value) = 0 THEN None
                                ELSE Some([current_module |-> cur,
                                           imported_module |-> resolved.value])
         IN  Given_resolved(_resolve_relative_import(extracted.value, import_node, cur)))

EdgeOf(import_node, cfg, env) ==
    ResolvedEdge(_extract_imported_module(import_node), import_node,
                 get_module_path_from_file(import_node.file, cfg, env))

is_import_violation(import_node, contracts_cache, cfg, env) ==
    IF ~contracts_cache.loaded THEN "False"
    ELSE IF Len(import_node.file) = 0 THEN "False"
    ELSE (LET Given_edge(edge) ==
                IF ~edge.found THEN "False"
                ELSE (LET Given_first(first) ==
                            IF first.raised \in {"AttributeError", "TypeError", "ValueError"}
                            THEN "False"
                            ELSE IF first.raised # "none" THEN first.raised
                            ELSE PyBool(first.index > 0)
                     IN  Given_first(FirstImplicating(contracts_cache.contracts_and_checks, 1,
                                           edge.value.current_module,
                                           edge.value.imported_module)))
         IN  Given_edge(EdgeOf(import_node, cfg, env)))

----------------------------------------------------------------------------
(* ImportLinterChecker: the driver *)

\* the text handed to add_message: format_violation_message's arguments
\* (contract name, message id, folder message, details), kept apart
\* a plausible slip: the imported module shown as the statement writes it
ViolationMessage_name_as_written(c, message_id, folder_msg, cur, imp, import_node) ==
    [msgid |-> message_id,
     args |-> <<c.name, message_id, folder_msg,
                <<cur, _extract_imported_module(import_node).value, c.name>>>>,
     node |-> import_node.id,
     line |-> import_node.lineno]

ViolationMessage(c, message_id, folder_msg, cur, imp, import_node) ==
    [msgid |-> message_id,
     args |-> <<c.name, message_id, folder_msg, <<cur, imp, c.name>>>>,
     node |-> import_node.id,
     line |-> import_node.lineno]

FolderMsg(target_folders) ==
    IF Len(target_folders) > 0
    THEN <<" (targeting folders: ", JoinWith(target_folders, ", "), ")">>
    ELSE <<>>

\* the add_message calls _report_import_violation makes for one import node
\* (none or one), or the exception that propagates
_report_import_violation(import_node, contracts_cache, cfg, env) ==
    IF ~contracts_cache.loaded THEN [added |-> <<>>, raised |-> "none"]
    ELSE (LET Given_edge(edge) ==
                IF ~edge.found THEN [added |-> <<>>, raised |-> "none"]
                ELSE (LET Given_first(first) ==
                            IF first.raised \in {"AttributeError", "TypeError", "ValueError"}
                            THEN [added |-> <<>>, raised |-> "none"]
                            ELSE IF first.raised # "none"
                            THEN [added |-> <<>>, raised |-> first.raised]
                            ELSE IF first.index = 0 THEN [added |-> <<>>, raised |-> "none"]
                            ELSE [added |->
                                    <<ViolationMessage(
                                        contracts_cache.contracts_and_checks[first.index].contract,
                                        get_message_id_for_contract_type(
                                            contracts_cache.contracts_and_checks[first.index]
                                                .contract.class_name),
                                        FolderMsg(cfg.import_linter_target_folders),
                                        edge.value.current_module,
                                        edge.value.imported_module,
                                        import_node)>>,
                                  raised |-> "none"]
                     IN  Given_first(FirstImplicating(contracts_cache.contracts_and_checks, 1,
                                           edge.value.current_module,
                                           edge.value.imported_module)))
         IN  Given_edge(EdgeOf(import_node, cfg, env)))

\* a plausible slip: the loop left after the first import reported
RECURSIVE CheckNodes_until_first_report(_, _, _, _, _)
CheckNodes_until_first_report(nodes, contracts_cache, cfg, env, msgs) ==
    IF Len(nodes) = 0 THEN [messages |-> msgs, raised |-> "none"]
    ELSE (LET Given_violation(violation) ==
                IF violation = "False"
                THEN CheckNodes_until_first_report(Tail(nodes), contracts_cache, cfg, env, msgs)
                ELSE IF violation # "True" THEN [messages |-> msgs, raised |-> violation]
                ELSE (LET Given_reported(reported) ==
                            IF reported.raised # "none"
                            THEN [messages |-> msgs, raised |-> reported.raised]
                            ELSE [messages |-> msgs \o reported.added, raised |-> "none"]
                     IN  Given_reported(_report_import_violation(Head(nodes), contracts_cache, cfg, env)))
         IN  Given_violation(is_import_violation(Head(nodes), contracts_cache, cfg, env)))

\* the for loop of _check_individual_imports over the nodes to check
RECURSIVE CheckNodes(_, _, _, _, _)
CheckNodes(nodes, contracts_cache, cfg, env, msgs) ==
    IF Len(nodes) = 0 THEN [messages |-> msgs, raised |-> "none"]
    ELSE (LET Given_violation(violation) ==
                IF violation = "False"
                THEN CheckNodes(Tail(nodes), contracts_cache, cfg, env, msgs)
                ELSE IF violation # "True" THEN [messages |-> msgs, raised |-> violation]
                ELSE (LET Given_reported(reported) ==
                            IF reported.raised # "none"
                            THEN [messages |-> msgs, raised |-> reported.raised]
                            ELSE CheckNodes(Tail(nodes), contracts_cache, cfg, env,
                                            msgs \o reported.added)
                     IN  Given_reported(_report_import_violation(Head(nodes), contracts_cache, cfg, env)))
         IN  Given_violation(is_import_violation(Head(nodes), contracts_cache, cfg, env)))

\* a plausible slip: the filter keeping the nodes of the other files
NodesOfFiles_of_other_files(nodes, files) ==
    LET Other(node) == node.file \notin files
    IN  SelectSeq(nodes, Other)

\* [node for node in self._import_nodes if node.root().file in self._analyzed_files]
RECURSIVE NodesOfFiles(_, _)
NodesOfFiles(nodes, files) ==
    IF Len(nodes) = 0 THEN <<>>
    ELSE IF Head(nodes).file \in files THEN <<Head(nodes)>> \o NodesOfFiles(Tail(nodes), files)
    ELSE NodesOfFiles(Tail(nodes), files)

_check_individual_imports(import_nodes, contracts_cache, single_file_mode, target_module_name, analyzed_files, cfg, env, msgs) ==
    LET import_nodes_to_check ==
            IF /\ single_file_mode
               /\ cfg.import_linter_fast_mode
               /\ target_module_name.found /\ Len(target_module_name.value) > 0
            THEN NodesOfFiles(import_nodes, analyzed_files)
            ELSE import_nodes
    IN  IF ~contracts_cache.loaded THEN [messages |-> msgs, raised |-> "none"]
        ELSE CheckNodes(import_nodes_to_check, contracts_cache, cfg, env, msgs)

\* rel_path.startswith(folder) or rel_path.startswith(folder + os.sep), any folder
AnyFolderPrefix(rel_path, folders) ==
    \E i \in DOMAIN folders :
        StartsWith(rel_path, folders[i]) \/ StartsWith(rel_path, folders[i] \o <<SLASH>>)

_should_check_contracts(analyzed_files, cfg) ==
    LET target_folders == cfg.import_linter_target_folders
        exclude_folders == cfg.import_linter_exclude_folders
    IN  IF Len(target_folders) = 0 /\ Len(exclude_folders) = 0
        THEN analyzed_files # {}
        ELSE \E file_path \in analyzed_files :
                /\ ~(Len(exclude_folders) > 0
                        /\ AnyFolderPrefix(relpath(file_path), exclude_folders))
                /\ \/ Len(target_folders) = 0
                   \/ AnyFolderPrefix(relpath(file_path), target_folders)

\* the loop of _setup_pythonpath over the configured entries
RECURSIVE SetupEntries(_, _, _)
SetupEntries(entries, sp, env) ==
    IF Len(entries) = 0 THEN [sys_path |-> sp, environ |-> env]
    ELSE LET path_entry == IF isabs(Head(entries)) THEN Head(entries)
                           ELSE abspath(Head(entries))
             sp1 == IF \E i \in DOMAIN sp : sp[i] = path_entry THEN sp
                    ELSE <<path_entry>> \o sp
             env1 == IF \E i \in DOMAIN SplitOn(env, ":") : SplitOn(env, ":")[i] = path_entry
                     THEN env
                     ELSE IF Len(env) > 0 THEN path_entry \o <<":">> \o env
                     ELSE path_entry
         IN  SetupEntries(Tail(entries), sp1, env1)

_setup_pythonpath(cfg, sp, env) ==
    SetupEntries(cfg.import_linter_pythonpath,
                 IF \E i \in DOMAIN sp : sp[i] = Cwd THEN sp ELSE <<Cwd>> \o sp,
                 env)

_optimize_for_single_file(analyzed_files, cfg, env) ==
    LET single_file == CHOOSE f \in analyzed_files : TRUE
    IN  [target_module_name |-> Some(get_module_path_from_file(single_file, cfg, env)),
         config |-> IF cfg.import_linter_fast_mode /\ Len(cfg.import_linter_cache_dir) = 0
                    THEN [cfg EXCEPT !.import_linter_cache_dir = <<".import_linter_cache">>]
                    ELSE cfg]

----------------------------------------------------------------------------
(* Values of the variables a specification does not use *)

NoString == <<>>
NoPattern == [obj |-> FALSE, text |-> <<>>]
NoLink == [importer |-> <<>>, imported |-> <<>>]
NoMetadata == [kind |-> "empty", has_invalid_chains |-> FALSE, invalid_chains |-> <<>>]
NoContract == [attrs |-> {}, source_modules |-> <<>>, forbidden_modules |-> <<>>,
               modules |-> <<>>, allowed_modules |-> <<>>]
NoCheck == [kept |-> TRUE, metadata |-> NoMetadata]

IdlePattern == module = NoString /\ pattern = NoPattern /\ match_result = "idle"
IdleLink == link = NoLink /\ link_result = "idle"
IdleEdge == current_module = NoString /\ imported_module = NoString
IdleEval == contract = NoContract /\ contract_check = NoCheck /\ implicated = "idle"

NoConfig ==
    [import_linter_target_folders |-> <<>>, import_linter_exclude_folders |-> <<>>,
     import_linter_pythonpath |-> <<>>, import_linter_fast_mode |-> FALSE,
     import_linter_cache_dir |-> <<>>, import_linter_debug |-> FALSE]
NoReport == [raises |-> "none", contains_failures |-> FALSE, contracts_and_checks |-> <<>>]

IdleDriver ==
    /\ config = NoConfig /\ environ = <<>> /\ sys_path = <<>> /\ create_report = NoReport
    /\ _contracts_checked = FALSE /\ _first_module_node = NoNode
    /\ _analyzed_files = {} /\ _module_nodes = <<>> /\ _import_nodes = <<>>
    /\ _contracts_cache = NoCache /\ _single_file_mode = FALSE
    /\ _target_module_name = None /\ messages = <<>>
IdleMatchers == IdlePattern /\ IdleLink /\ IdleEdge /\ IdleEval

NoImport == [id |-> 0, attrs |-> {}, modname |-> <<>>, names |-> <<>>, level |-> 0,
             file |-> <<>>, lineno |-> 0]

\* the outcome of a call: not made in this specification, awaited, returned
NotCalled == [state |-> "idle", value |-> <<>>]
Pending == [state |-> "pending", value |-> <<>>]
Returned(v) == [state |-> "returned", value |-> v]

IdleResolver ==
    /\ resolve_file = NoString /\ resolve_result = NotCalled
    /\ relative_node = NoImport /\ relative_result = NotCalled

----------------------------------------------------------------------------
(* Specification of the pattern matcher: every (module, pattern) input     *)
(* within the bounds, then the call.                                       *)

Modules == Strings(ModuleChars, MaxModuleLen)
Patterns == [obj : BOOLEAN, text : Strings(PatternChars, MaxPatternLen)]

InitPattern ==
    /\ module \in Modules
    /\ pattern \in Patterns
    /\ match_result = "pending"
    /\ IdleLink /\ IdleEdge /\ IdleEval /\ IdleDriver /\ IdleResolver

CallModuleMatchesPattern ==
    /\ match_result = "pending"
    /\ match_result' = module_matches_pattern(module, pattern)
    /\ UNCHANGED <<module, pattern, link, current_module, imported_module,
                   link_result, contract, contract_check, implicated>>
    /\ UNCHANGED <<driver_vars, resolver_vars>>

NextPattern == CallModuleMatchesPattern

SpecPattern == InitPattern /\ [][NextPattern]_vars

----------------------------------------------------------------------------
(* Specification of the link matcher: every link and every candidate pair  *)
(* within the bounds, then the call.                                       *)

LinkChars == {"a", DOT}
LinkStrings == Strings(LinkChars, MaxLinkLen)

InitLink ==
    /\ link \in [importer : LinkStrings, imported : LinkStrings]
    /\ current_module \in LinkStrings
    /\ imported_module \in LinkStrings
    /\ link_result = "pending"
    /\ IdlePattern /\ IdleEval /\ IdleDriver /\ IdleResolver

CallMatchesViolationLink ==
    /\ link_result = "pending"
    /\ link_result' = PyBool(matches_violation_link(link, current_module, imported_module))
    /\ UNCHANGED <<module, pattern, match_result, link, current_module, imported_module,
                   contract, contract_check, implicated>>
    /\ UNCHANGED <<driver_vars, resolver_vars>>

NextLink == CallMatchesViolationLink

SpecLink == InitLink /\ [][NextLink]_vars

----------------------------------------------------------------------------
(* Specification of the contract evaluator: contracts of every attribute   *)
(* shape, ContractChecks with every form of metadata, and every edge       *)
(* between module identifiers of up to MaxSegments segments.               *)

SegmentNames == {<<"a">>, <<"a", "b">>}

RECURSIVE ModuleIds(_)
ModuleIds(n) ==
    IF n = 1 THEN SegmentNames
    ELSE {prefix \o <<DOT>> \o name : prefix \in ModuleIds(n - 1), name \in SegmentNames}

EdgeModules == UNION {ModuleIds(n) : n \in 1..MaxSegments}

\* the patterns contracts declare: plain strings and ModuleExpression objects
P_a == [obj |-> FALSE, text |-> <<"a">>]
P_a_ab == [obj |-> TRUE, text |-> <<"a", DOT, "a", "b">>]
P_a_star == [obj |-> TRUE, text |-> <<"a", DOT, STAR>>]
P_ab_rec == [obj |-> FALSE, text |-> <<"a", "b", DOT, STAR, STAR>>]

PatternLists == {<<P_a>>, <<P_a_ab>>, <<P_a_star>>, <<P_ab_rec>>, <<P_a_ab, P_ab_rec>>}

Contract(attrs, src, forb, mods, allowed) ==
    [attrs |-> attrs,
     source_modules |-> IF "source_modules" \in attrs THEN src ELSE <<>>,
     forbidden_modules |-> IF "forbidden_modules" \in attrs THEN forb ELSE <<>>,
     modules |-> IF "modules" \in attrs THEN mods ELSE <<>>,
     allowed_modules |-> IF "allowed_modules" \in attrs THEN allowed ELSE <<>>]

ForbiddenAttrs == {"source_modules", "forbidden_modules"}
IndependenceAttrs == {"modules"}
WhitelistAttrs == {"source_modules", "allowed_modules"}
KindAttrs == ForbiddenAttrs \cup IndependenceAttrs \cup WhitelistAttrs

ForbiddenContracts ==
    {Contract(ForbiddenAttrs, s, f, <<>>, <<>>) : s \in PatternLists, f \in PatternLists}
IndependenceContracts ==
    {Contract(IndependenceAttrs, <<>>, <<>>, ms, <<>>) : ms \in PatternLists}
WhitelistContracts ==
    {Contract(WhitelistAttrs, s, <<>>, <<>>, al) : s \in PatternLists,
                                                   al \in {<<P_a>>, <<P_ab_rec>>}}
\* every other combination of attributes: contracts of no kind (a layers
\* contract among them) and objects exposing the attributes of several kinds
OtherContracts ==
    {Contract(attrs, <<P_a>>, <<P_a_ab, P_ab_rec>>, <<P_a>>, <<P_ab_rec>>) :
        attrs \in ((SUBSET KindAttrs) \cup {{"layers", "containers"}})
                    \ {ForbiddenAttrs, IndependenceAttrs, WhitelistAttrs}}

Contracts ==
    ForbiddenContracts \cup IndependenceContracts \cup WhitelistContracts \cup OtherContracts

EvidenceModules == {<<"a">>, <<"a", "b">>, <<"a", DOT, "a", "b">>}
FullLinks ==
    {[keys |-> {"importer", "imported"}, importer |-> i, imported |-> m] :
        i \in EvidenceModules, m \in EvidenceModules}
PartialLink == [keys |-> {"importer"}, importer |-> <<"a">>, imported |-> <<>>]

Metadata(kind, has, chains) ==
    [kind |-> kind, has_invalid_chains |-> has, invalid_chains |-> chains]
NoChains == [has_chains |-> FALSE, chains |-> <<>>]
WithChains(chains) == [has_chains |-> TRUE, chains |-> chains]

Metadatas ==
    {Metadata("absent", FALSE, <<>>), Metadata("empty", FALSE, <<>>),
     Metadata("opaque", FALSE, <<>>), Metadata("dict", FALSE, <<>>),
     Metadata("dict", TRUE, <<>>), Metadata("dict", TRUE, <<NoChains>>)}
    \cup {Metadata("dict", TRUE, <<WithChains(<<<<lnk>>>>)>>) : lnk \in FullLinks}
    \cup {Metadata("dict", TRUE, <<NoChains, WithChains(<<<<PartialLink>>, <<PartialLink, lnk>>>>)>>) :
            lnk \in {l \in FullLinks : l.importer = l.imported}}

InitEval ==
    /\ contract \in Contracts
    /\ contract_check \in [kept : {FALSE}, metadata : Metadatas]
    /\ current_module \in EdgeModules
    /\ imported_module \in EdgeModules
    /\ implicated = "pending"
    /\ IdlePattern /\ IdleLink /\ IdleDriver /\ IdleResolver

CallCheckContractAgainstImport ==
    /\ implicated = "pending"
    /\ implicated' = _check_contract_against_import(contract, contract_check,
                                                     current_module, imported_module)
    /\ UNCHANGED <<module, pattern, match_result, link, current_module, imported_module,
                   link_result, contract, contract_check>>
    /\ UNCHANGED <<driver_vars, resolver_vars>>

NextEval == CallCheckContractAgainstImport

SpecEval == InitEval /\ [][NextEval]_vars

----------------------------------------------------------------------------
(* Specification of the driver: a run of the checker over two files.  The   *)
(* host calls open(), then the visit methods as it walks the modules, then  *)
(* close(); the report create_report returns (or the exception it raises)   *)
(* is fixed for the run.                                                    *)

MaxImportNodes == 2

\* /w/a/a.py and /w/ab.py
File_a_a == <<SLASH, "w", SLASH, "a", SLASH, "a", DOT, "p", "y">>
File_ab == <<SLASH, "w", SLASH, "a", "b", DOT, "p", "y">>

ModuleNodes ==
    {[id |-> 1, file |-> File_a_a], [id |-> 2, file |-> File_ab], [id |-> 3, file |-> <<>>]}

ImportAttrs == {"names"}
ImportFromAttrs == {"modname", "names", "level"}

\* import ab (in a/a.py);  import a.a (in ab.py);  import ab (in a module
\* that has no file)
ImportNodes ==
    {[id |-> 11, attrs |-> ImportAttrs, modname |-> <<>>, names |-> <<<<"a", "b">>>>,
      level |-> 0, file |-> File_a_a, lineno |-> 1],
     [id |-> 21, attrs |-> ImportAttrs, modname |-> <<>>, names |-> <<<<"a", DOT, "a">>>>,
      level |-> 0, file |-> File_ab, lineno |-> 1],
     [id |-> 31, attrs |-> ImportAttrs, modname |-> <<>>, names |-> <<<<"a", "b">>>>,
      level |-> 0, file |-> <<>>, lineno |-> 1]}

\* from .ab import a (in a/a.py);  from . import a (in ab.py)
ImportFromNodes ==
    {[id |-> 12, attrs |-> ImportFromAttrs, modname |-> <<"a", "b">>, names |-> <<<<"a">>>>,
      level |-> 1, file |-> File_a_a, lineno |-> 2],
     [id |-> 22, attrs |-> ImportFromAttrs, modname |-> <<>>, names |-> <<<<"a">>>>,
      level |-> 1, file |-> File_ab, lineno |-> 2]}

Config(targets, excludes, pythonpath, fast) ==
    [import_linter_target_folders |-> targets, import_linter_exclude_folders |-> excludes,
     import_linter_pythonpath |-> pythonpath, import_linter_fast_mode |-> fast,
     import_linter_cache_dir |-> <<>>, import_linter_debug |-> FALSE]

Configs ==
    {Config(<<>>, <<>>, <<>>, fast) : fast \in BOOLEAN}
    \cup {Config(<<<<"a">>>>, <<>>, <<>>, fast) : fast \in BOOLEAN}
    \cup {Config(<<>>, <<<<"a", SLASH>>>>, <<>>, fast) : fast \in BOOLEAN}
    \cup {Config(<<>>, <<>>, <<<<"a">>>>, fast) : fast \in BOOLEAN}
    \cup {[Config(<<>>, <<>>, <<>>, FALSE) EXCEPT !.import_linter_debug = TRUE]}

P_ab == [obj |-> FALSE, text |-> <<"a", "b">>]

NamedContract(name, class_name, c) ==
    [name |-> name, class_name |-> class_name, attrs |-> c.attrs,
     source_modules |-> c.source_modules, forbidden_modules |-> c.forbidden_modules,
     modules |-> c.modules, allowed_modules |-> c.allowed_modules]

\* the kinds of contract a report holds: a is forbidden to import ab; a and
\* ab are independent; a layers contract; a contract with an allow-list
ContractKinds ==
    {[class_name |-> "ForbiddenContract",
      shape |-> Contract(ForbiddenAttrs, <<P_a>>, <<P_ab>>, <<>>, <<>>)],
     [class_name |-> "IndependenceContract",
      shape |-> Contract(IndependenceAttrs, <<>>, <<>>, <<P_a, P_ab>>, <<>>)],
     [class_name |-> "LayersContract",
      shape |-> Contract({"layers", "containers"}, <<>>, <<>>, <<>>, <<>>)],
     [class_name |-> "AllowListContract",
      shape |-> Contract(WhitelistAttrs, <<P_ab>>, <<>>, <<>>, <<P_ab>>)]}

Link_ab_a == [keys |-> {"importer", "imported"}, importer |-> <<"a", "b">>,
              imported |-> <<"a">>]

\* what the contract-checking service reports for a contract of each kind:
\* broken, and for the forbidden contract also kept
ChecksOf(class_name) ==
    IF class_name = "AllowListContract"
    THEN {[kept |-> FALSE,
           metadata |-> Metadata("dict", TRUE, <<WithChains(<<<<Link_ab_a>>>>)>>)]}
    ELSE IF class_name = "ForbiddenContract"
    THEN {[kept |-> TRUE, metadata |-> NoMetadata],
          [kept |-> FALSE, metadata |-> Metadata("dict", TRUE, <<>>)]}
    ELSE {[kept |-> FALSE, metadata |-> Metadata("dict", TRUE, <<>>)]}

ReportSlots ==
    UNION {{[kind |-> k, contract_check |-> ch] : ch \in ChecksOf(k.class_name)} :
              k \in ContractKinds}

Pair(name, slot) ==
    [contract |-> NamedContract(name, slot.kind.class_name, slot.kind.shape),
     contract_check |-> slot.contract_check]

Reports ==
    {<<>>}
    \cup {<<Pair("first", s)>> : s \in ReportSlots}
    \cup {<<Pair("first", s), Pair("second", t)>> : s \in ReportSlots, t \in ReportSlots}

\* a report contains failures when one of its contracts is broken
ReportOutcomes ==
    {[raises |-> "none",
      contains_failures |-> \E i \in DOMAIN r : ~r[i].contract_check.kept,
      contracts_and_checks |-> r] : r \in Reports}
    \cup {[raises |-> e, contains_failures |-> FALSE, contracts_and_checks |-> <<>>] :
            e \in {"ImportError", "FileNotFoundError", "ValueError",
                   "NotATopLevelModule", "RuntimeError"}}

InitDriver ==
    /\ config \in Configs
    /\ environ = <<>>
    /\ sys_path = <<<<SLASH, "l", "i", "b">>>>
    /\ create_report \in ReportOutcomes
    /\ _contracts_checked = FALSE
    /\ _first_module_node = NoNode
    /\ _analyzed_files = {}
    /\ _module_nodes = <<>>
    /\ _import_nodes = <<>>
    /\ _contracts_cache = NoCache
    /\ _single_file_mode = FALSE
    /\ _target_module_name = None
    /\ messages = <<>>
    /\ IdleMatchers /\ IdleResolver

\* open()
Open ==
    LET setup == _setup_pythonpath(config, sys_path, environ)
    IN  /\ sys_path' = setup.sys_path
        /\ environ' = setup.environ
        /\ UNCHANGED <<config, create_report, _contracts_checked, _first_module_node,
                       _analyzed_files, _module_nodes, _import_nodes, _contracts_cache,
                       _single_file_mode, _target_module_name, messages>>
        /\ UNCHANGED <<matcher_vars, resolver_vars>>

\* visit_module(node); the host calls open() before it walks the modules
VisitModule(node) ==
    /\ \E i \in DOMAIN sys_path : sys_path[i] = Cwd
    /\ _first_module_node' = IF _first_module_node = NoNode THEN node ELSE _first_module_node
    /\ IF Len(node.file) > 0
       THEN /\ _analyzed_files' = _analyzed_files \cup {node.file}
            /\ _module_nodes' = [f \in _analyzed_files \cup {node.file} |->
                                    IF f = node.file THEN node ELSE _module_nodes[f]]
       ELSE UNCHANGED <<_analyzed_files, _module_nodes>>
    /\ UNCHANGED <<config, environ, sys_path, create_report, _contracts_checked,
                   _import_nodes, _contracts_cache, _single_file_mode,
                   _target_module_name, messages>>
    /\ UNCHANGED <<matcher_vars, resolver_vars>>

Collected(node) == \E i \in DOMAIN _import_nodes : _import_nodes[i].id = node.id

\* visit_import(node); the host visits a node once, after open() and
\* after the module the statement is in
VisitImport(node) ==
    /\ Len(_import_nodes) < MaxImportNodes
    /\ ~Collected(node)
    /\ \E i \in DOMAIN sys_path : sys_path[i] = Cwd
    /\ node.file = <<>> \/ node.file \in _analyzed_files
    /\ _import_nodes' = Append(_import_nodes, node)
    /\ UNCHANGED <<config, environ, sys_path, create_report, _contracts_checked,
                   _first_module_node, _analyzed_files, _module_nodes, _contracts_cache,
                   _single_file_mode, _target_module_name, messages>>
    /\ UNCHANGED <<matcher_vars, resolver_vars>>

\* visit_importfrom(node); the host visits a node once, after open() and
\* after the module the statement is in
VisitImportFrom(node) ==
    /\ Len(_import_nodes) < MaxImportNodes
    /\ ~Collected(node)
    /\ \E i \in DOMAIN sys_path : sys_path[i] = Cwd
    /\ node.file = <<>> \/ node.file \in _analyzed_files
    /\ _import_nodes' = Append(_import_nodes, node)
    /\ UNCHANGED <<config, environ, sys_path, create_report, _contracts_checked,
                   _first_module_node, _analyzed_files, _module_nodes, _contracts_cache,
                   _single_file_mode, _target_module_name, messages>>
    /\ UNCHANGED <<matcher_vars, resolver_vars>>

\* _check_import_contracts: the message added for an error result, and the
\* report stored for the import checks
ErrorMessage(result) ==
    [msgid |-> result.error, args |-> result.args, node |-> result.node.id, line |-> 0]

_check_import_contracts(result, contracts_cache, msgs) ==
    [messages |-> IF result.kind = "error" THEN Append(msgs, ErrorMessage(result)) ELSE msgs,
     contracts_cache |-> IF result.kind = "report"
                         THEN [loaded |-> TRUE, contracts_and_checks |-> result.report]
                         ELSE contracts_cache]

\* the body of close() once the single-file settings are made
CloseWith(single, settings) ==
    (LET Given_contracts(contracts) ==
            (LET Given_checked(checked) ==
                    [_single_file_mode |-> single,
                     _target_module_name |-> settings.target_module_name,
                     config |-> settings.config,
                     _contracts_cache |-> contracts.contracts_cache,
                     messages |-> checked.messages,
                     _contracts_checked |-> (checked.raised = "none")]
            IN  Given_checked(_check_individual_imports(_import_nodes, contracts.contracts_cache, single,
                                           settings.target_module_name, _analyzed_files,
                                           settings.config, environ, contracts.messages)))
    IN  Given_contracts(_check_import_contracts(
                            check_import_contracts(create_report, _first_module_node,
                                                   settings.config.import_linter_debug),
                            _contracts_cache, messages)))

\* a plausible slip: the flag of the finished check not consulted
CheckIsDue_ignoring_flag(checked, analyzed_files, cfg) ==
    _should_check_contracts(analyzed_files, cfg)

\* the condition of close()
CheckIsDue(checked, analyzed_files, cfg) ==
    ~checked /\ _should_check_contracts(analyzed_files, cfg)

\* close(): the whole handler.  An exception that leaves
\* _check_individual_imports leaves close() before _contracts_checked is set.
\* A close() whose condition fails does nothing.
Close ==
    IF ~CheckIsDue(_contracts_checked, _analyzed_files, config) THEN UNCHANGED vars
    ELSE
    /\ \E after \in {CloseWith(Cardinality(_analyzed_files) = 1,
                               IF Cardinality(_analyzed_files) = 1
                               THEN _optimize_for_single_file(_analyzed_files, config, environ)
                               ELSE [target_module_name |-> _target_module_name,
                                     config |-> config])} :
        /\ _single_file_mode' = after._single_file_mode
        /\ _target_module_name' = after._target_module_name
        /\ config' = after.config
        /\ _contracts_cache' = after._contracts_cache
        /\ messages' = after.messages
        /\ _contracts_checked' = after._contracts_checked
    /\ UNCHANGED <<environ, sys_path, create_report, _first_module_node, _analyzed_files,
                   _module_nodes, _import_nodes>>
    /\ UNCHANGED <<matcher_vars, resolver_vars>>

NextDriver ==
    \/ Open
    \/ \E node \in ModuleNodes : VisitModule(node)
    \/ \E node \in ImportNodes : VisitImport(node)
    \/ \E node \in ImportFromNodes : VisitImportFrom(node)
    \/ Close

SpecDriver == InitDriver /\ [][NextDriver]_vars

----------------------------------------------------------------------------
(* Specification of the module path resolver: a file path at most          *)
(* MaxPathSegments directories deep, given relative to the working          *)
(* directory or absolute below it, with or without its .py extension, a     *)
(* configuration, a PYTHONPATH; then the call.                              *)

MaxPathSegments == 4

Seg_a == <<"a">>
Seg_ab == <<"a", "b">>
Seg_domains == <<"d", "o", "m", "a", "i", "n", "s">>

\* the empty path, the paths of one to MaxPathSegments segments among a, ab
\* and domains, and also /ab.py and /a/ab.py (outside the working directory)
\* and a/ab.txt
FilePaths ==
    {<<>>}
    \cup {prefix \o JoinWith(segs, SLASH) \o ext :
            segs \in UNION {[1..k -> {Seg_a, Seg_ab, Seg_domains}] : k \in 1..MaxPathSegments},
            prefix \in {<<>>, Cwd \o <<SLASH>>}, ext \in {<<>>, PY}}
    \cup {<<SLASH>> \o Seg_ab \o PY, <<SLASH>> \o Seg_a \o <<SLASH>> \o Seg_ab \o PY,
          Seg_a \o <<SLASH>> \o Seg_ab \o <<DOT, "t", "x", "t">>}

\* the values of import-linter-target-folders: a, a/ab, a/domains
TargetFolders ==
    {Seg_a, JoinWith(<<Seg_a, Seg_ab>>, SLASH), JoinWith(<<Seg_a, Seg_domains>>, SLASH)}

\* the values of import-linter-pythonpath: a, /w/a/ab
PythonpathFolders == {Seg_a, Cwd \o <<SLASH>> \o JoinWith(<<Seg_a, Seg_ab>>, SLASH)}

\* the values of PYTHONPATH: unset, "ab", "a:ab"
EnvPythonpaths == {<<>>, Seg_ab, Seg_a \o <<":">> \o Seg_ab}

ResolverConfigs ==
    {Config(targets, <<>>, pythonpath, FALSE) :
        targets \in {<<>>} \cup {<<t>> : t \in TargetFolders}
                           \cup {<<t, u>> : t \in TargetFolders, u \in TargetFolders},
        pythonpath \in {<<>>} \cup {<<r>> : r \in PythonpathFolders}}

IdleChecker ==
    /\ sys_path = <<>> /\ create_report = NoReport
    /\ _contracts_checked = FALSE /\ _first_module_node = NoNode
    /\ _analyzed_files = {} /\ _module_nodes = <<>> /\ _import_nodes = <<>>
    /\ _contracts_cache = NoCache /\ _single_file_mode = FALSE
    /\ _target_module_name = None /\ messages = <<>>

InitResolve ==
    /\ resolve_file \in FilePaths
    /\ config \in ResolverConfigs
    /\ environ \in EnvPythonpaths
    /\ resolve_result = Pending
    /\ relative_node = NoImport /\ relative_result = NotCalled
    /\ IdleMatchers /\ IdleChecker

CallGetModulePathFromFile ==
    /\ resolve_result = Pending
    /\ resolve_result' = Returned(get_module_path_from_file(resolve_file, config, environ))
    /\ UNCHANGED <<resolve_file, relative_node, relative_result>>
    /\ UNCHANGED <<matcher_vars, driver_vars>>

NextResolve == CallGetModulePathFromFile

SpecResolve == InitResolve /\ [][NextResolve]_vars

----------------------------------------------------------------------------
(* Specification of the resolution of the imported identifier: one import   *)
(* statement, absolute or relative, in a file at most MaxPackageDepth        *)
(* segments deep; then the steps of is_import_violation that resolve the     *)
(* current module of the file and the imported module of the statement.      *)

MaxPackageDepth == 3
MaxLevel == 2

\* a.py, b.py, a/a.py, ... : the source files, relative to the working directory
SourceFiles ==
    {JoinWith(segs, SLASH) \o PY :
        segs \in UNION {[1..k -> {Seg_a, <<"b">>}] : k \in 1..MaxPackageDepth}}

Dots(k) == [i \in 1..k |-> DOT]

\* the names after the dots of a relative import: none, a, b.a
RelativeNames == {<<>>, Seg_a, <<"b", DOT, "a">>}

ImportFromStatement(modname, level, file) ==
    [id |-> 1, attrs |-> ImportFromAttrs, modname |-> modname, names |-> <<Seg_a>>,
     level |-> level, file |-> file, lineno |-> 1]

ImportStatement(name, file) ==
    [id |-> 1, attrs |-> ImportAttrs, modname |-> <<>>, names |-> <<name>>,
     level |-> 0, file |-> file, lineno |-> 1]

\* from a import a; from .a import a with the level given by the node (the
\* dots are not part of modname); the same with the dots kept in the name;
\* import a, and an import whose name keeps leading dots
Statements ==
    {ImportFromStatement(n.name, n.level, file) :
        n \in {x \in [name : RelativeNames, level : 0..MaxLevel] :
                    x.name # <<>> \/ x.level > 0},
        file \in SourceFiles}
    \cup {ImportFromStatement(Dots(k) \o name, 0, file) :
            name \in RelativeNames, k \in 1..MaxLevel, file \in SourceFiles}
    \cup {ImportStatement(Dots(k) \o Seg_a, file) : k \in 0..MaxLevel, file \in SourceFiles}
    \* import a, ab;  import ab, a;  from a import ab, a;  a node without names
    \cup {[ImportStatement(Seg_a, file) EXCEPT !.names = names] :
            names \in {<<Seg_a, Seg_ab>>, <<Seg_ab, Seg_a>>, <<>>}, file \in SourceFiles}
    \cup {[ImportFromStatement(Seg_a, 0, file) EXCEPT !.names = <<Seg_ab, Seg_a>>] :
            file \in SourceFiles}

InitRelative ==
    /\ relative_node \in Statements
    /\ config \in {Config(<<>>, <<>>, <<>>, FALSE), Config(<<>>, <<>>, <<Seg_a>>, FALSE)}
    /\ environ = <<>>
    /\ relative_result = Pending
    /\ resolve_file = NoString /\ resolve_result = NotCalled
    /\ IdleMatchers /\ IdleChecker

\* is_import_violation, from the extraction of the imported module to the
\* edge it hands to the contracts
ResolveImport ==
    /\ relative_result = Pending
    /\ LET edge == EdgeOf(relative_node, config, environ)
       IN  /\ current_module' = get_module_path_from_file(relative_node.file, config, environ)
           /\ relative_result' = Returned(IF edge.found
                                          THEN Some(edge.value.imported_module) ELSE None)
    /\ UNCHANGED <<resolve_file, resolve_result, relative_node>>
    /\ UNCHANGED <<module, pattern, match_result, link, imported_module,
                   link_result, contract, contract_check, implicated>>
    /\ UNCHANGED driver_vars

NextRelative == ResolveImport

SpecRelative == InitRelative /\ [][NextRelative]_vars

----------------------------------------------------------------------------
(* Properties of the pattern matcher (SpecPattern) *)

Called(outcome) == outcome \notin {"pending", "idle"}

HasNoWildcard(text) == \A i \in 1..Len(text) : text[i] # STAR

\* a dot-joined sequence of non-empty wildcard-free segments
IsModuleId(m) ==
    /\ HasNoWildcard(m)
    /\ \A i \in 1..Len(Split(m)) : Split(m)[i] # <<>>

\* m is p, or p followed by a dot and more
EqualOrDescendant(m, p) ==
    /\ Len(m) >= Len(p)
    /\ \A i \in 1..Len(p) : m[i] = p[i]
    /\ (Len(m) = Len(p) \/ m[Len(p) + 1] = DOT)

\* C5: for a pattern without wildcard, whatever object carries it,
\* module_matches_pattern(m, p) is true exactly when m equals the pattern's
\* string form or starts with it followed by a dot.
C5_NoWildcardMatch ==
    (Called(match_result) /\ HasNoWildcard(pattern.text))
        => match_result = PyBool(EqualOrDescendant(module, pattern.text))

\* a submodule matched by a package pattern given as an object
C5_Witness ==
    /\ match_result = "True"
    /\ pattern.obj
    /\ HasNoWildcard(pattern.text)
    /\ IsModuleId(pattern.text)
    /\ Len(module) > Len(pattern.text)

\* C6: a pattern m0.** matches m0 itself (zero trailing segments) and every
\* module identifier under m0, and matches no module identifier outside m0.
C6_RecursiveWildcard ==
    Called(match_result) =>
        \A k \in 1..Len(pattern.text) :
            LET m0 == SubSeq(pattern.text, 1, k)
            IN  (pattern.text = m0 \o <<DOT, STAR, STAR>> /\ IsModuleId(m0) /\ IsModuleId(module))
                    => match_result = PyBool(EqualOrDescendant(module, m0))

\* the pattern's segments are names and at least one lone "*"
IsSingleWildcardPattern(text) ==
    LET segs == Split(text)
    IN  /\ \E i \in 1..Len(segs) : segs[i] = <<STAR>>
        /\ \A i \in 1..Len(segs) : segs[i] = <<STAR>> \/ (segs[i] # <<>> /\ HasNoWildcard(segs[i]))

SegmentwiseMatch(m, p) ==
    LET ms == Split(m)
        ps == Split(p)
    IN  /\ Len(ms) = Len(ps)
        /\ \A i \in 1..Len(ps) :
              IF ps[i] = <<STAR>> THEN ms[i] # <<>> ELSE ms[i] = ps[i]

\* C7: for a pattern whose only wildcards are lone "*" segments, a module
\* identifier matches exactly when it has as many segments as the pattern,
\* every name segment of the pattern equals the module's, and every "*"
\* stands for one non-empty segment.
C7_SingleWildcard ==
    (Called(match_result) /\ IsSingleWildcardPattern(pattern.text) /\ IsModuleId(module))
        => match_result = PyBool(SegmentwiseMatch(module, pattern.text))

----------------------------------------------------------------------------
(* Properties of the link matcher (SpecLink) *)

\* s ends with suffix, at a dot or at the start of s
IsDotSuffix(s, suffix) ==
    /\ EndsWith(s, suffix)
    /\ (Len(s) = Len(suffix) \/ s[Len(s) - Len(suffix)] = DOT)

AllModuleIds(strings) == \A str \in strings : IsModuleId(str)

\* C8 as stated: for module identifiers, matches_violation_link is true
\* exactly when one of the six rules holds, rules 2 and 3 requiring the
\* suffix to sit at a dot or exact boundary.
C8_SixRulesDotSuffix ==
    (/\ Called(link_result)
     /\ AllModuleIds({link.importer, link.imported, current_module, imported_module})) =>
        link_result = PyBool(
            \/ (link.importer = current_module /\ link.imported = imported_module)
            \/ (IsDotSuffix(current_module, link.importer) /\ link.imported = imported_module)
            \/ (IsDotSuffix(link.importer, current_module) /\ link.imported = imported_module)
            \/ (EndsWith(link.importer, current_module)
                    /\ StartsWith(imported_module, link.imported \o <<DOT>>))
            \/ (Contains(current_module, link.importer)
                    /\ StartsWith(imported_module, link.imported))
            \/ (EndsWith(link.importer, <<DOT>> \o current_module)
                    /\ StartsWith(imported_module, link.imported)))

\* C8 amended: matches_violation_link is true exactly when one of the six
\* rules holds, rules 2 and 3 being plain string-suffix tests (no segment
\* boundary is required).
C8_SixRulesPlainSuffix ==
    Called(link_result) =>
        link_result = PyBool(
            \/ (link.importer = current_module /\ link.imported = imported_module)
            \/ (EndsWith(current_module, link.importer) /\ link.imported = imported_module)
            \/ (EndsWith(link.importer, current_module) /\ link.imported = imported_module)
            \/ (EndsWith(link.importer, current_module)
                    /\ StartsWith(imported_module, link.imported \o <<DOT>>))
            \/ (Contains(current_module, link.importer)
                    /\ StartsWith(imported_module, link.imported))
            \/ (EndsWith(link.importer, <<DOT>> \o current_module)
                    /\ StartsWith(imported_module, link.imported)))

\* a match that only the plain suffix rule gives: the link's importer ends
\* with the current module inside a segment
C8_Witness ==
    /\ link_result = "True"
    /\ IsModuleId(link.importer) /\ IsModuleId(current_module)
    /\ EndsWith(link.importer, current_module)
    /\ ~IsDotSuffix(link.importer, current_module)
    /\ link.imported = imported_module

----------------------------------------------------------------------------
(* Properties of the contract evaluator (SpecEval) *)

\* the evidence links of a ContractCheck: the links of its invalid chains
\* that carry an importer and an imported module
EvidenceLinks(check) ==
    IF check.metadata.kind = "dict" /\ check.metadata.has_invalid_chains
    THEN {lnk \in LinksVisited(check.metadata) : lnk.keys = {"importer", "imported"}}
    ELSE {}

MatchesSome(m, patterns) ==
    \E i \in DOMAIN patterns : module_matches_pattern(m, patterns[i]) = "True"

\* C1: for a Forbidden contract the edge is implicated exactly when an
\* evidence link matches it or the source and forbidden patterns match it.
C1_ForbiddenIff ==
    (Called(implicated) /\ contract.attrs = ForbiddenAttrs) =>
        implicated = PyBool(
            \/ \E lnk \in EvidenceLinks(contract_check) :
                    matches_violation_link(lnk, current_module, imported_module)
            \/ /\ MatchesSome(current_module, contract.source_modules)
               /\ MatchesSome(imported_module, contract.forbidden_modules))

\* the first two dot-segments, or the whole identifier
DomainKey(m) ==
    LET dots == {i \in 1..Len(m) : m[i] = DOT}
    IN  IF Cardinality(dots) < 2 THEN m
        ELSE SubSeq(m, 1, (CHOOSE i \in dots : Cardinality({j \in dots : j < i}) = 1) - 1)

\* C2: for an Independence contract the edge is implicated exactly when
\* both modules match a group pattern and their domain keys differ.
C2_IndependenceIff ==
    (Called(implicated) /\ ~_is_forbidden_contract(contract) /\ _is_independence_contract(contract))
        => implicated = PyBool(
            /\ MatchesSome(current_module, contract.modules)
            /\ MatchesSome(imported_module, contract.modules)
            /\ DomainKey(current_module) # DomainKey(imported_module))

\* two modules of different domains under one group pattern
C2_Witness ==
    /\ implicated = "True"
    /\ contract.attrs = IndependenceAttrs
    /\ Len(Split(current_module)) > 2
    /\ Split(current_module)[1] = Split(imported_module)[1]

\* a is b, or an ancestor package of b
IsSegmentPrefix(a, b) == a = b \/ StartsWith(b, a \o <<DOT>>)

\* C3: a Whitelist contract implicates the edge only if the current module
\* matches a source pattern and an evidence link has the current module as
\* importer and an imported module that is the statement's imported module
\* or one of its ancestor packages.
C3_WhitelistOnlyIf ==
    (Called(implicated) /\ contract.attrs = WhitelistAttrs /\ implicated = "True") =>
        /\ MatchesSome(current_module, contract.source_modules)
        /\ \E lnk \in EvidenceLinks(contract_check) :
              lnk.importer = current_module /\ IsSegmentPrefix(lnk.imported, imported_module)

\* the contract with only the attributes of one kind
Restricted(c, attrs) ==
    Contract(c.attrs \cap attrs, c.source_modules, c.forbidden_modules,
             c.modules, c.allowed_modules)

\* the attributes of the one kind the dispatch selects, if any
SelectedKind(c) ==
    IF ForbiddenAttrs \subseteq c.attrs THEN ForbiddenAttrs
    ELSE IF IndependenceAttrs \subseteq c.attrs THEN IndependenceAttrs
    ELSE IF WhitelistAttrs \subseteq c.attrs THEN WhitelistAttrs
    ELSE {}

\* C4: a contract is evaluated under the rule of exactly one kind, chosen in
\* the order Forbidden, Independence, Whitelist: its verdict is that of the
\* contract stripped of every attribute of the other kinds; a contract of
\* no kind implicates nothing and raises nothing.
C4_OneKindOrFalse ==
    Called(implicated) =>
        /\ implicated \in {"True", "False"}
        /\ SelectedKind(contract) = {} => implicated = "False"
        /\ implicated = _check_contract_against_import(
                            Restricted(contract, SelectedKind(contract)),
                            contract_check, current_module, imported_module)
        /\ (SelectedKind(contract) = IndependenceAttrs) =>
                implicated = PyBool(
                    /\ MatchesSome(current_module, contract.modules)
                    /\ MatchesSome(imported_module, contract.modules)
                    /\ DomainKey(current_module) # DomainKey(imported_module))

\* a contract of no kind whose source pattern matches the edge's importer
C4_Witness ==
    /\ implicated = "False"
    /\ SelectedKind(contract) = {}
    /\ "source_modules" \in contract.attrs
    /\ MatchesSome(current_module, contract.source_modules)
    /\ contract_check.metadata.kind = "dict"

----------------------------------------------------------------------------
(* Properties of the driver (SpecDriver) *)

IsViolationRecord(m) == m.msgid # IMPORT_CONTRACT_ERROR

\* the positions of the violation records emitted for an import node
RecordsOf(node) ==
    {i \in DOMAIN messages : IsViolationRecord(messages[i]) /\ messages[i].node = node.id}

\* the positions of the report's broken contracts that implicate the edge a
\* record names
BrokenImplicating(m) ==
    {k \in DOMAIN create_report.contracts_and_checks :
        /\ ~create_report.contracts_and_checks[k].contract_check.kept
        /\ _check_contract_against_import(
                create_report.contracts_and_checks[k].contract,
                create_report.contracts_and_checks[k].contract_check,
                m.args[4][1], m.args[4][2]) = "True"}

Earliest(positions) == CHOOSE k \in positions : \A h \in positions : k <= h

\* C9: for every import statement the driver emits at most one violation
\* record, and that record carries the name and the message id of the first
\* broken contract, in the order of the report, that implicates the edge;
\* later broken contracts implicating the same edge add no record.
C9_FirstMatchWins ==
    \A node \in ImportNodes \cup ImportFromNodes :
        /\ Cardinality(RecordsOf(node)) <= 1
        /\ \A i \in RecordsOf(node) :
              /\ BrokenImplicating(messages[i]) # {}
              /\ LET first == create_report.contracts_and_checks[
                                  Earliest(BrokenImplicating(messages[i]))].contract
                 IN  /\ messages[i].args[1] = first.name
                     /\ messages[i].msgid = get_message_id_for_contract_type(first.class_name)
                     /\ messages[i].args[2] = messages[i].msgid

\* close() has run over an import whose edge two broken contracts of the
\* report implicate, and one record stands for it
C9_Witness ==
    /\ _contracts_checked
    /\ \E i \in DOMAIN messages :
          /\ IsViolationRecord(messages[i])
          /\ Cardinality(BrokenImplicating(messages[i])) > 1
          /\ \E k \in DOMAIN _import_nodes : _import_nodes[k].id = messages[i].node

\* the positions of the report's contracts that carry the name of a record
NamedBy(m) ==
    {k \in DOMAIN create_report.contracts_and_checks :
        create_report.contracts_and_checks[k].contract.name = m.args[1]}

\* C10: only broken contracts are tested against an edge: every violation
\* record names a broken contract of the report, never a kept one, and when
\* the report contains no failures close() emits no message at all.
C10_OnlyBrokenContracts ==
    /\ \A i \in DOMAIN messages :
          IsViolationRecord(messages[i]) =>
            /\ NamedBy(messages[i]) # {}
            /\ \A k \in NamedBy(messages[i]) :
                  ~create_report.contracts_and_checks[k].contract_check.kept
    /\ (create_report.raises = "none" /\ ~create_report.contains_failures)
          => messages = <<>>

\* the patterns of a kept contract match the edge of a collected import
KeptContractMatches(node) ==
    \E k \in DOMAIN create_report.contracts_and_checks :
        /\ create_report.contracts_and_checks[k].contract_check.kept
        /\ EdgeOf(node, config, environ).found
        /\ _check_contract_against_import(
                create_report.contracts_and_checks[k].contract,
                create_report.contracts_and_checks[k].contract_check,
                EdgeOf(node, config, environ).value.current_module,
                EdgeOf(node, config, environ).value.imported_module) = "True"

\* close() has run over an import whose edge a kept contract matches, in a
\* report that has a broken contract too, and no record names the import
C10_Witness ==
    /\ _contracts_checked
    /\ create_report.raises = "none"
    /\ create_report.contains_failures
    /\ _contracts_cache.loaded
    /\ \E k \in DOMAIN _import_nodes :
          /\ KeptContractMatches(_import_nodes[k])
          /\ RecordsOf(_import_nodes[k]) = {}

----------------------------------------------------------------------------
(* Properties of the module path resolver (SpecResolve) *)

\* the file's path relative to the working directory (one level up and down
\* again for an absolute path outside it), its .py extension removed
Stem(path) ==
    LET below == IF StartsWith(path, Cwd \o <<SLASH>>)
                 THEN SubSeq(path, Len(Cwd) + 2, Len(path))
                 ELSE IF StartsWith(path, <<SLASH>>) THEN <<DOT, DOT>> \o path
                 ELSE path
    IN  IF EndsWith(below, PY) THEN SubSeq(below, 1, Len(below) - Len(PY)) ELSE below

\* a folder given below the working directory, relative to it
BelowCwd(folder) ==
    IF StartsWith(folder, Cwd \o <<SLASH>>)
    THEN SubSeq(folder, Len(Cwd) + 2, Len(folder)) ELSE folder

\* a relative path with its separators turned into dots
Dotted(path) == Join(SplitOn(path, SLASH))

\* the path is the folder itself, or the folder followed by a separator and more
LiesIn(path, folder) == path = folder \/ StartsWith(path, folder \o <<SLASH>>)

\* the part of the path after the folder and the separator
Remainder(path, folder) == SubSeq(path, Len(folder) + 2, Len(path))

\* the index of the first folder of the list the path lies in, 0 when none
FirstHolding(path, folders) ==
    IF \E i \in DOMAIN folders : LiesIn(path, folders[i])
    THEN CHOOSE i \in DOMAIN folders :
            /\ LiesIn(path, folders[i])
            /\ \A k \in 1..(i - 1) : ~LiesIn(path, folders[k])
    ELSE 0

\* the search roots: the configured entries, then those of PYTHONPATH
SearchRoots(cfg, env) ==
    [i \in DOMAIN cfg.import_linter_pythonpath |-> BelowCwd(cfg.import_linter_pythonpath[i])]
    \o [i \in DOMAIN EnvEntries(env) |-> BelowCwd(EnvEntries(env)[i])]

\* what a search root makes of a path that lies in it
SearchRootResult(path, root) ==
    IF path = root THEN <<>> ELSE Dotted(Remainder(path, root))

\* what a target folder makes of a path that lies in it
TargetFolderResult(path, folder) ==
    LET segments == SplitOn(folder, SLASH)
        last == segments[Len(segments)]
    IN  IF path = folder THEN last ELSE last \o <<DOT>> \o Dotted(Remainder(path, folder))

\* the sentinel is the first segment of the path, two or more segments follow
SentinelLeads(path) ==
    LET segments == SplitOn(path, SLASH)
    IN  Len(segments) >= 3 /\ segments[1] = Seg_domains

\* the sentinel is a segment of the path, two or more segments follow
SentinelOccurs(path) ==
    LET segments == SplitOn(path, SLASH)
    IN  \E i \in DOMAIN segments : segments[i] = Seg_domains /\ Len(segments) - i >= 2

\* the segments after the first sentinel and the segment that follows it
AfterSentinel(path) ==
    LET segments == SplitOn(path, SLASH)
        i == CHOOSE k \in DOMAIN segments :
                /\ segments[k] = Seg_domains
                /\ \A h \in 1..(k - 1) : segments[h] # Seg_domains
    IN  Join(SubSeq(segments, i + 2, Len(segments)))

\* what the strategies after the convention root decide
LaterStrategies(path, cfg, env) ==
    LET roots == SearchRoots(cfg, env)
        targets == cfg.import_linter_target_folders
        r == FirstHolding(path, roots)
        t == FirstHolding(path, targets)
    IN  IF r > 0 THEN SearchRootResult(path, roots[r])
        ELSE IF t > 0 THEN TargetFolderResult(path, targets[t])
        ELSE Dotted(path)

Resolved == resolve_result.state = "returned"

\* C11: the result of get_module_path_from_file is the result of the first
\* strategy, in the order convention root, search roots, target folders, that
\* yields one, whatever the later strategies would yield; when none of the
\* three yields a result it is the working-directory-relative path without
\* its .py extension, every separator replaced by a dot; the empty file path
\* resolves to the empty string.
C11_FirstStrategyWins ==
    Resolved =>
        LET path == Stem(resolve_file)
            convention == _try_domains_pattern(path)
            search == _try_pythonpath_resolution(path, config, environ)
            target == _try_target_folder_resolution(path, config.import_linter_target_folders)
        IN  resolve_result.value =
                IF resolve_file = <<>> THEN <<>>
                ELSE IF convention.found THEN convention.value
                ELSE IF search.found THEN search.value
                ELSE IF target.found THEN target.value
                ELSE Dotted(path)

\* a search root and a target folder both yield a result, not the same one,
\* and the search root's is returned
C11_Witness ==
    /\ Resolved
    /\ LET path == Stem(resolve_file)
           search == _try_pythonpath_resolution(path, config, environ)
           target == _try_target_folder_resolution(path, config.import_linter_target_folders)
       IN  /\ ~_try_domains_pattern(path).found
           /\ search.found /\ target.found /\ search.value # target.value
           /\ resolve_result.value = search.value

\* C12: when the sentinel segment 'domains' is the first segment of the
\* relative path and at least two segments follow it, the result is the
\* dot-joined segments after the sentinel and the one segment that follows it;
\* otherwise (the sentinel elsewhere in the path, or fewer than two segments
\* after it) the convention root does not apply and the later strategies decide.
C12_SentinelFirstSegment ==
    (Resolved /\ resolve_file # <<>>) =>
        LET path == Stem(resolve_file)
        IN  resolve_result.value = IF SentinelLeads(path) THEN AfterSentinel(path)
                                   ELSE LaterStrategies(path, config, environ)

\* the convention root decides a path that a target folder holds as well
C12_Witness ==
    /\ Resolved
    /\ SentinelLeads(Stem(resolve_file))
    /\ resolve_result.value = AfterSentinel(Stem(resolve_file))
    /\ resolve_result.value # LaterStrategies(Stem(resolve_file), config, environ)

\* C12 as stated: the sentinel segment at any position of the relative path,
\* followed by at least two segments, makes the convention root decide.
C12_SentinelAnyPosition ==
    (Resolved /\ resolve_file # <<>>) =>
        LET path == Stem(resolve_file)
        IN  resolve_result.value = IF SentinelOccurs(path) THEN AfterSentinel(path)
                                   ELSE LaterStrategies(path, config, environ)

\* C13: when neither the convention root nor a search root applies and the
\* relative path lies in a configured target folder (the folder itself, or the
\* folder followed by a separator), the result is the folder's final segment,
\* followed for a longer path by a dot and the dotted remainder; the first
\* configured folder that holds the path decides.
C13_TargetFolder ==
    (Resolved /\ resolve_file # <<>>) =>
        LET path == Stem(resolve_file)
            targets == config.import_linter_target_folders
            t == FirstHolding(path, targets)
        IN  (/\ ~SentinelLeads(path)
             /\ FirstHolding(path, SearchRoots(config, environ)) = 0
             /\ t > 0)
            => resolve_result.value = TargetFolderResult(path, targets[t])

\* two configured target folders hold the path and the first one decides
C13_Witness ==
    /\ Resolved
    /\ LET path == Stem(resolve_file)
           targets == config.import_linter_target_folders
       IN  /\ ~SentinelLeads(path)
           /\ FirstHolding(path, SearchRoots(config, environ)) = 0
           /\ Len(targets) = 2
           /\ LiesIn(path, targets[1]) /\ LiesIn(path, targets[2])
           /\ TargetFolderResult(path, targets[1]) # TargetFolderResult(path, targets[2])
           /\ resolve_result.value = TargetFolderResult(path, targets[1])

\* C14: the search roots are the configured entries followed by those of
\* PYTHONPATH, relative to the working directory; when the convention root
\* does not apply, the first root that holds the relative path decides: the
\* dotted remainder after the root and the separator, the empty identifier for
\* the root itself; whatever the target folders are.
C14_SearchRoots ==
    (Resolved /\ resolve_file # <<>>) =>
        LET path == Stem(resolve_file)
            roots == SearchRoots(config, environ)
            r == FirstHolding(path, roots)
        IN  (~SentinelLeads(path) /\ r > 0)
            => resolve_result.value = SearchRootResult(path, roots[r])

\* a configured root and a root of PYTHONPATH hold the path, and so does a
\* target folder; the configured root decides
C14_Witness ==
    /\ Resolved
    /\ LET path == Stem(resolve_file)
           roots == SearchRoots(config, environ)
           targets == config.import_linter_target_folders
       IN  /\ ~SentinelLeads(path)
           /\ Len(config.import_linter_pythonpath) = 1
           /\ LiesIn(path, roots[1])
           /\ \E k \in 2..Len(roots) :
                /\ LiesIn(path, roots[k])
                /\ SearchRootResult(path, roots[k]) # SearchRootResult(path, roots[1])
           /\ FirstHolding(path, targets) > 0
           /\ resolve_result.value = SearchRootResult(path, roots[1])

----------------------------------------------------------------------------
(* Properties of the resolution of the imported identifier (SpecRelative) *)

\* the name the statement gives: the module of a from-import, else the first name
RawName(node) ==
    IF node.modname # <<>> THEN node.modname
    ELSE IF node.names # <<>> THEN node.names[1] ELSE <<>>

RECURSIVE LeadingDots(_)
LeadingDots(name) ==
    IF Len(name) > 0 /\ name[1] = DOT THEN 1 + LeadingDots(Tail(name)) ELSE 0

\* the number of levels of the statement: the leading dots of the name, or the
\* level of a from-import; 0 for an absolute import
Levels(node) ==
    IF LeadingDots(RawName(node)) > 0 THEN LeadingDots(RawName(node))
    ELSE IF "level" \in node.attrs THEN node.level
    ELSE 0

\* the name after the leading dots
Rest(node) == SubSeq(RawName(node), LeadingDots(RawName(node)) + 1, Len(RawName(node)))

Segments(m) == IF m = <<>> THEN <<>> ELSE Split(m)

\* the module with its last k segments dropped
Ancestor(m, k) == Join(SubSeq(Segments(m), 1, Len(Segments(m)) - k))

\* the rest of the name below a package
Below(package, rest) == IF rest = <<>> THEN package ELSE package \o <<DOT>> \o rest

ImportResolved == relative_result.state = "returned"

\* C15: a one-level relative import (one leading dot, or level 1) made from a
\* current module of at least two segments resolves to the containing package
\* of the current module, a dot and the rest of the name, or to the containing
\* package itself when nothing follows the dot; the result is not empty and
\* does not begin with a dot.
C15_OneLevel ==
    (/\ ImportResolved
     /\ Levels(relative_node) = 1
     /\ Len(Segments(current_module)) >= 2)
    => /\ relative_result.value
            = Some(Below(Ancestor(current_module, 1), Rest(relative_node)))
       /\ relative_result.value.value # <<>>
       /\ relative_result.value.value[1] # DOT

\* a one-level import of a name, from a module three segments deep
C15_Witness ==
    /\ ImportResolved
    /\ Levels(relative_node) = 1
    /\ Rest(relative_node) # <<>>
    /\ Len(Segments(current_module)) = 3
    /\ relative_result.value
            = Some(Ancestor(current_module, 1) \o <<DOT>> \o Rest(relative_node))

\* C16: a relative import of k levels, k at least two, resolves against the
\* current module with its last k segments dropped; when no package is left
\* and a name remains, the import is not resolved.
C16_SeveralLevels ==
    (/\ ImportResolved
     /\ Levels(relative_node) >= 2
     /\ current_module # <<>>)
    => IF Len(Segments(current_module)) > Levels(relative_node)
       THEN relative_result.value
                = Some(Below(Ancestor(current_module, Levels(relative_node)),
                             Rest(relative_node)))
       ELSE Rest(relative_node) # <<>> => relative_result.value = None

\* C17: a relative import made from a current module that is empty or has a
\* single segment leaves no edge: nothing is handed to contract evaluation.
C17_UnanchoredIsSkipped ==
    (/\ ImportResolved
     /\ Levels(relative_node) >= 1
     /\ Len(Segments(current_module)) <= 1)
    => relative_result.value = None

----------------------------------------------------------------------------
(* Error handling of the pattern matcher (SpecPattern) *)

\* C18: whatever the pattern, one that does not parse as a wildcard
\* expression included, module_matches_pattern answers True or False: no
\* exception leaves it.
C18_NoExceptionLeaves ==
    Called(match_result) => match_result \in {"True", "False"}

----------------------------------------------------------------------------
(* Folder scoping (SpecDriver) *)

\* a configured folder without its trailing separators
RECURSIVE Trimmed(_)
Trimmed(folder) ==
    IF Len(folder) > 1 /\ folder[Len(folder)] = SLASH
    THEN Trimmed(SubSeq(folder, 1, Len(folder) - 1)) ELSE folder

\* the file is the folder or lies below it, for some folder of the list
UnderSome(file, folders) ==
    \E i \in DOMAIN folders : LiesIn(BelowCwd(file), Trimmed(folders[i]))

\* the file is under no exclude folder and, when target folders are
\* configured, under one of them
InScope(file, cfg) ==
    /\ ~UnderSome(file, cfg.import_linter_exclude_folders)
    /\ \/ cfg.import_linter_target_folders = <<>>
       \/ UnderSome(file, cfg.import_linter_target_folders)

\* the file of the import statement a record is reported on
FileOfRecord(m) ==
    (CHOOSE n \in ImportNodes \cup ImportFromNodes : n.id = m.node).file

\* C19: every violation record is reported on an import whose source file
\* (a file the host has visited) is under one of the configured target folders
\* (when any are configured) and under none of the configured exclude folders.
C19_ReportsInScope ==
    \A i \in DOMAIN messages :
        (IsViolationRecord(messages[i]) /\ FileOfRecord(messages[i]) \in _analyzed_files)
            => InScope(FileOfRecord(messages[i]), config)

\* C20: _should_check_contracts is true, with neither target nor exclude
\* folders configured, iff a file was analyzed; otherwise iff some analyzed
\* file is under no exclude folder and, when target folders are configured,
\* under one of them.
C20_ShouldCheck ==
    _should_check_contracts(_analyzed_files, config)
        <=> IF /\ config.import_linter_target_folders = <<>>
               /\ config.import_linter_exclude_folders = <<>>
            THEN _analyzed_files # {}
            ELSE \E file \in _analyzed_files : InScope(file, config)

----------------------------------------------------------------------------
(* Failure of the contract report (SpecDriver) *)

\* the error messages among the messages emitted
ErrorRecords == {i \in DOMAIN messages : messages[i].msgid = IMPORT_CONTRACT_ERROR}

\* the text an error message carries for the exception: the exception's text,
\* after the prefix for an unexpected one
ErrorText(e) ==
    IF e \in {"ImportError", "FileNotFoundError", "ValueError"} THEN <<"", e>>
    ELSE <<"Unexpected error: ", e>>

\* what close() leaves when the report could not be built: one error message
\* with the argument given, on the first module node; no cache
FailureReported(argument) ==
    /\ Len(messages) = 1
    /\ messages[1].msgid = IMPORT_CONTRACT_ERROR
    /\ messages[1].args = <<argument>>
    /\ messages[1].node = _first_module_node.id
    /\ _first_module_node # NoNode
    /\ _contracts_cache = NoCache

----------------------------------------------------------------------------
(* Well-formedness of the resolved identifier (SpecResolve) *)

\* the extension of the file: the last dot of its last segment and what follows
FileExtension(path) ==
    LET segments == SplitOn(path, SLASH)
        pieces == Split(segments[Len(segments)])
    IN  IF Len(pieces) > 1 THEN <<DOT>> \o pieces[Len(pieces)] ELSE <<>>

\* C22: the identifier get_module_path_from_file returns contains no path
\* separator, does not keep the file's extension, and is empty or a dot-joined
\* sequence of non-empty segments; for every file, those outside the working
\* directory and those with another extension than .py included.
C22_WellFormedModuleId ==
    (Resolved /\ resolve_file # <<>>) =>
        /\ ~Contains(resolve_result.value, <<SLASH>>)
        /\ FileExtension(resolve_file) # <<>>
              => ~EndsWith(resolve_result.value, FileExtension(resolve_file))
        /\ resolve_result.value = <<>> \/ IsModuleId(resolve_result.value)

----------------------------------------------------------------------------
(* Frame of a run (SpecDriver) *)

\* C23: no step of a run (open, a visit, close) changes the configuration the
\* engine reads: the linter options and the PYTHONPATH environment value.
C23_ConfigurationReadOnly == [][config' = config /\ environ' = environ]_vars

----------------------------------------------------------------------------
(* Independence of the edge evaluations (SpecDriver) *)

\* the violation records among messages
ViolationRecords(msgs) == {msgs[i] : i \in {k \in DOMAIN msgs : IsViolationRecord(msgs[k])}}

----------------------------------------------------------------------------
(* Members of an Independence group (SpecEval) *)

\* C25: an Independence contract never implicates an edge whose two modules
\* both lie under one and the same pattern of the group.
C25_DifferentMembers ==
    (Called(implicated) /\ ~_is_forbidden_contract(contract) /\ _is_independence_contract(contract)
        /\ \E i \in DOMAIN contract.modules :
                /\ MatchesSome(current_module, <<contract.modules[i]>>)
                /\ MatchesSome(imported_module, <<contract.modules[i]>>))
        => implicated # "True"

----------------------------------------------------------------------------
(* The check runs once (SpecDriver) *)

\* what close() writes
CloseState ==
    <<messages, _contracts_cache, _contracts_checked, _single_file_mode,
      _target_module_name, config>>

\* C26: once a close() has run the check, no later step (a later close()
\* included, whatever was visited in between) adds a message or changes what
\* close() writes; the check starts only when an analysed file is in scope,
\* and while none is, close() changes nothing and the check is still to run.
C26_RunsOnce ==
    [][/\ _contracts_checked => CloseState' = CloseState
       /\ (~_contracts_checked /\ ~_should_check_contracts(_analyzed_files, config))
            => CloseState' = CloseState
       /\ (~_contracts_checked /\ CloseState' # CloseState)
            => _should_check_contracts(_analyzed_files, config)]_vars

\* the check has run, and an import statement visited afterwards, which a
\* second run would report, is not reported
C26_Witness ==
    /\ _contracts_checked
    /\ \E i \in DOMAIN _import_nodes :
        /\ _import_nodes[i].file \in _analyzed_files
        /\ is_import_violation(_import_nodes[i], _contracts_cache, config, environ) = "True"
        /\ \A k \in DOMAIN messages : messages[k].node # _import_nodes[i].id

----------------------------------------------------------------------------
(* Detection and reporting (SpecDriver) *)

\* the positions of the collected import nodes the run of close() examines
Examined(single_file_mode, target_module_name, cfg) ==
    {i \in DOMAIN _import_nodes :
        (/\ single_file_mode /\ cfg.import_linter_fast_mode
         /\ target_module_name.found /\ Len(target_module_name.value) > 0)
            => _import_nodes[i].file \in _analyzed_files}

\* the violation records among msgs that name import_node
ViolationsAt(msgs, import_node) ==
    {k \in DOMAIN msgs : IsViolationRecord(msgs[k]) /\ msgs[k].node = import_node.id}

\* C27: in the close() that runs the check, an examined import node that
\* is_import_violation flags gets exactly one message, at the node's line and
\* showing the pair of modules the detection evaluated; an examined node
\* that is not flagged gets none.
C27_DetectionAndReportAgree ==
    [][(~_contracts_checked /\ _contracts_checked') =>
        \A i \in Examined(_single_file_mode', _target_module_name', config') :
            LET import_node == _import_nodes[i]
                flagged == is_import_violation(import_node, _contracts_cache', config', environ)
                edge == EdgeOf(import_node, config', environ)
                records == ViolationsAt(messages', import_node)
            IN  /\ flagged \in {"True", "False"}
                /\ flagged = "False" => records = {}
                /\ flagged = "True" =>
                    /\ Cardinality(records) = 1
                    /\ \A k \in records :
                        /\ messages'[k].line = import_node.lineno
                        /\ messages'[k].args[4][1] = edge.value.current_module
                        /\ messages'[k].args[4][2] = edge.value.imported_module]_vars

\* close() has examined a flagged and an unflagged import statement and
\* reported the flagged one, a relative import
C27_Witness ==
    /\ _contracts_checked
    /\ Len(_import_nodes) = 2 /\ Len(messages) = 1
    /\ IsViolationRecord(messages[1])
    /\ \A i \in DOMAIN _import_nodes : _import_nodes[i].file \in _analyzed_files
    /\ \E i, j \in DOMAIN _import_nodes :
        /\ is_import_violation(_import_nodes[i], _contracts_cache, config, environ) = "True"
        /\ _import_nodes[i].level > 0
        /\ messages[1].node = _import_nodes[i].id
        /\ is_import_violation(_import_nodes[j], _contracts_cache, config, environ) = "False"

----------------------------------------------------------------------------
(* What every link match implies (SpecLink) *)

\* C28: a link that matches the edge has an imported module that is a
\* string prefix of the statement's imported module, and its importer and
\* the current module are one a substring of the other; and an empty
\* current module matches every link whose imported module is the
\* statement's.
C28_NecessaryCondition ==
    Called(link_result) =>
        /\ link_result = "True" =>
            /\ StartsWith(imported_module, link.imported)
            /\ Contains(link.importer, current_module) \/ Contains(current_module, link.importer)
        /\ (current_module = <<>> /\ link.imported = imported_module) => link_result = "True"

\* a match by a proper prefix, the importer strictly inside the current module
C28_Witness ==
    /\ link_result = "True"
    /\ StartsWith(imported_module, link.imported) /\ imported_module # link.imported
    /\ Contains(current_module, link.importer) /\ current_module # link.importer
    /\ link.importer # <<>> /\ link.imported # <<>>

----------------------------------------------------------------------------
(* Fast mode (SpecDriver) *)

\* the host visits a module before the import statements in it
ModulesVisitedFirst ==
    \A i \in DOMAIN _import_nodes :
        _import_nodes[i].file = <<>> \/ _import_nodes[i].file \in _analyzed_files

\* the messages of a single-file close() under the configuration cfg
SingleFileRun(cfg) ==
    CloseWith(TRUE, _optimize_for_single_file(_analyzed_files, cfg, environ)).messages

\* C29: when close() is about to run the check on a single analysed file,
\* it emits the same messages with fast mode enabled as with fast mode
\* disabled, the visited nodes and the contract report being the same.
C29_FastModeSameVerdicts ==
    (/\ CheckIsDue(_contracts_checked, _analyzed_files, config)
     /\ Cardinality(_analyzed_files) = 1
     /\ ModulesVisitedFirst)
        => SingleFileRun([config EXCEPT !.import_linter_fast_mode = TRUE])
            = SingleFileRun([config EXCEPT !.import_linter_fast_mode = FALSE])

\* a fast single-file close() that dropped the import of a module without a
\* file and reported the import of the analysed file
C29_Witness ==
    /\ _contracts_checked /\ _single_file_mode /\ config.import_linter_fast_mode
    /\ Len(_import_nodes) = 2 /\ Len(messages) = 1
    /\ _import_nodes[1].file = <<>>
    /\ IsViolationRecord(messages[1])
    /\ messages[1].node = _import_nodes[2].id

----------------------------------------------------------------------------
(* The identifier a statement is judged by (SpecRelative) *)

\* the statement reduced to the one identifier: the from-import module name
\* when it is not empty, otherwise the first of the names
OneIdentifier(node) ==
    [node EXCEPT !.names = IF node.modname # <<>> \/ node.names = <<>> THEN <<>>
                           ELSE <<node.names[1]>>]

\* the reports with one broken contract
OneContractCaches ==
    {[loaded |-> TRUE, contracts_and_checks |-> <<Pair("first", slot)>>] :
        slot \in {x \in ReportSlots : ~x.contract_check.kept}}

\* C30: the imported module of a statement, and whether the statement is
\* flagged, are those of the statement reduced to its one identifier (the
\* module name if not empty, else the first name); a statement with neither
\* a module name nor names has no imported module and is not flagged.
C30_OneIdentifier ==
    relative_result.state = "returned" =>
        /\ relative_result.value =
            (LET edge == EdgeOf(OneIdentifier(relative_node), config, environ)
             IN  IF edge.found THEN Some(edge.value.imported_module) ELSE None)
        /\ \A cache \in OneContractCaches :
            /\ is_import_violation(relative_node, cache, config, environ)
                = is_import_violation(OneIdentifier(relative_node), cache, config, environ)
            /\ (relative_node.modname = <<>> /\ relative_node.names = <<>>)
                => /\ relative_result.value = None
                   /\ is_import_violation(relative_node, cache, config, environ) = "False"

\* import ab, a in a module that may not import ab but may import a: flagged
C30_Witness ==
    /\ relative_result.state = "returned"
    /\ relative_node.modname = <<>>
    /\ Len(relative_node.names) = 2
    /\ \E cache \in OneContractCaches :
        /\ is_import_violation(relative_node, cache, config, environ) = "True"
        /\ is_import_violation([relative_node EXCEPT !.names = <<relative_node.names[2]>>],
                               cache, config, environ) = "False"

====
